---- MODULE Spec2Model ----
(***************************************************************************)
(* A model of the project analysis core of code-assist:                    *)
(*   - analysis/structure.rs : feature scan, project type classification   *)
(*     and the type-specific info gatherers (specification Spec);          *)
(*   - fs/search.rs : relevance scoring and the file searches              *)
(*     (specifications SpecRel, SpecScore and SpecSearch);                 *)
(*   - analysis/parser.rs : the per-language structural extraction         *)
(*     (specification SpecParse).                                          *)
(* Texts (file contents, paths, keywords) are strings; the substring,      *)
(* prefix, split and case operations of the code are computed on them      *)
(* character by character.                                                 *)
(***************************************************************************)
EXTENDS Integers, Sequences, FiniteSets, TLC

VARIABLES
    \* analysis/structure.rs : one run of analyze_project_structure
    pc, root, tree, directories, files_by_type, features,
    project_type, modules, specific_info,
    \* fs/search.rs : calculate_relevance on one (content, keywords) pair
    content, keywords, score, prev,
    \* fs/search.rs : find_relevant_files / search_in_files over a file list
    spc, sfiles, squery, sresult, sread, sscored,
    \* analysis/parser.rs : one extraction run on the text of a file
    ppc, pext, plines, elements, is_drupal

cvars == <<pc, root, tree, directories, files_by_type, features,
           project_type, modules, specific_info>>
rvars == <<content, keywords, score, prev>>
svars == <<spc, sfiles, squery, sresult, sread, sscored>>
pvars == <<ppc, pext, plines, elements, is_drupal>>
vars == <<cvars, rvars, svars, pvars>>

-----------------------------------------------------------------------------
(* Bounds of the model.                                                    *)

\* most files a modelled project tree holds
MaxFiles == 3
\* most keyword occurrences appended to a scored content
MaxFrags == 1
\* most keywords of a query
MaxKw == 2
\* most files of a searched tree
MaxSearchFiles == 2
\* most lines of a parsed file
MaxLines == 3

-----------------------------------------------------------------------------
(* str: the operations of Rust's str that the code uses.                   *)

Min(a, b) == IF a < b THEN a ELSE b

\* s[i..j] clipped to the string (1-based, inclusive)
Sub(s, i, j) == IF i > j \/ i > Len(s) THEN "" ELSE SubSeq(s, i, Min(j, Len(s)))

\* s[i..]
From(s, i) == Sub(s, i, Len(s))

\* str::starts_with
StartsWith(s, t) == Len(t) <= Len(s) /\ SubSeq(s, 1, Len(t)) = t

\* str::ends_with
EndsWith(s, t) == Len(t) <= Len(s) /\ SubSeq(s, Len(s) - Len(t) + 1, Len(s)) = t

\* the indices at which t occurs in s
Hits(s, t) == {i \in 1..(Len(s) - Len(t) + 1) : SubSeq(s, i, i + Len(t) - 1) = t}

MinOf(S) == CHOOSE x \in S : \A y \in S : x <= y
MaxOf(S) == CHOOSE x \in S : \A y \in S : y <= x

\* str::contains
Contains(s, t) == \E i \in 1..(Len(s) - Len(t) + 1) : SubSeq(s, i, i + Len(t) - 1) = t

\* the first occurrence of t in s at or after index i, 0 for none
FindFrom(s, t, i) ==
    LET h == {j \in i..(Len(s) - Len(t) + 1) : SubSeq(s, j, j + Len(t) - 1) = t}
    IN  IF h = {} THEN 0 ELSE MinOf(h)

\* str::find : the 1-based index of the first occurrence, 0 for None
Find(s, t) == FindFrom(s, t, 1)

\* str::rfind
RFind(s, t) == LET h == Hits(s, t) IN IF h = {} THEN 0 ELSE MaxOf(h)

RECURSIVE CountFrom(_, _, _)
\* the occurrences among the indices h taken leftmost first, none overlapping
CountFrom(h, n, i) ==
    LET r == {j \in h : j >= i}
    IN  IF r = {} THEN 0 ELSE 1 + CountFrom(h, n, MinOf(r) + n)

\* str::matches(t).count() : non-overlapping occurrences, leftmost first
CountMatches(s, t) == IF t = "" THEN Len(s) + 1 ELSE CountFrom(Hits(s, t), Len(t), 1)

\* char::to_lowercase on ASCII
LowerChar(c) ==
    LET i == Find("ABCDEFGHIJKLMNOPQRSTUVWXYZ", c)
    IN  IF i = 0 THEN c ELSE SubSeq("abcdefghijklmnopqrstuvwxyz", i, i)

RECURSIVE LowerSub(_, _, _)
\* s[i..j] in lower case, by halves
LowerSub(s, i, j) ==
    IF i > j THEN ""
    ELSE IF i = j THEN LowerChar(SubSeq(s, i, i))
    ELSE LET m == (i + j) \div 2 IN LowerSub(s, i, m) \o LowerSub(s, m + 1, j)

\* str::to_lowercase
ToLower(s) == LowerSub(s, 1, Len(s))

IsSpace(c) == c \in {" ", "\t", "\n", "\r"}

\* str::trim_start
TrimStart(s) ==
    LET h == {i \in 1..Len(s) : ~IsSpace(SubSeq(s, i, i))}
    IN  IF h = {} THEN "" ELSE From(s, MinOf(h))

\* str::trim_end
TrimEnd(s) ==
    LET h == {i \in 1..Len(s) : ~IsSpace(SubSeq(s, i, i))}
    IN  IF h = {} THEN "" ELSE Sub(s, 1, MaxOf(h))

\* str::trim
Trim(s) == TrimEnd(TrimStart(s))

RECURSIVE TrimStartMatches(_, _)
\* str::trim_start_matches(t)
TrimStartMatches(s, t) ==
    IF t # "" /\ StartsWith(s, t) THEN TrimStartMatches(From(s, Len(t) + 1), t) ELSE s

RECURSIVE TrimEndMatches(_, _)
\* str::trim_end_matches(t)
TrimEndMatches(s, t) ==
    IF t # "" /\ EndsWith(s, t) THEN TrimEndMatches(Sub(s, 1, Len(s) - Len(t)), t) ELSE s

\* str::trim_matches(c) for a one-character pattern
TrimMatches(s, c) == TrimEndMatches(TrimStartMatches(s, c), c)

RECURSIVE Split(_, _)
\* str::split(t) collected: the pieces between the occurrences of t
Split(s, t) ==
    LET i == Find(s, t)
    IN  IF i = 0 THEN <<s>>
        ELSE <<Sub(s, 1, i - 1)>> \o Split(From(s, i + Len(t)), t)

\* str::lines collected: split at "\n", no final empty line, a trailing "\r" dropped
Lines(s) ==
    IF s = "" THEN <<>>
    ELSE LET q == Split(s, "\n")
             r == IF q[Len(q)] = "" THEN SubSeq(q, 1, Len(q) - 1) ELSE q
         IN  [k \in 1..Len(r) |->
                 IF EndsWith(r[k], "\r") THEN Sub(r[k], 1, Len(r[k]) - 1) ELSE r[k]]

\* s.split(t).next()
FirstOf(s, t) == Split(s, t)[1]

\* Vec::contains
InSeq(q, x) == \E i \in 1..Len(q) : q[i] = x

Range(q) == {q[i] : i \in 1..Len(q)}

-----------------------------------------------------------------------------
(* std::path on "/"-separated strings.                                     *)

\* Path::join
Join(a, b) == IF a = "" THEN b ELSE IF b = "" THEN a ELSE a \o "/" \o b

\* Path::file_name : the last component
FileName(p) == LET i == RFind(p, "/") IN IF i = 0 THEN p ELSE From(p, i + 1)

\* Path::parent ("" for a single component)
Parent(p) == LET i == RFind(p, "/") IN IF i = 0 THEN "" ELSE Sub(p, 1, i - 1)

\* Path::extension : after the last dot of the file name; None ("") when the
\* name has no dot or only a leading one
Extension(p) ==
    LET n == FileName(p)
        i == RFind(n, ".")
    IN  IF i <= 1 THEN "" ELSE From(n, i + 1)

HasExtension(p) == RFind(FileName(p), ".") > 1

\* Path::file_stem
FileStem(p) ==
    LET n == FileName(p)
        i == RFind(n, ".")
    IN  IF i <= 1 THEN n ELSE Sub(n, 1, i - 1)

\* Path::starts_with : component-wise prefix
PathStartsWith(p, base) == p = base \/ StartsWith(p, base \o "/")

-----------------------------------------------------------------------------
(* The project trees.  A tree is a set of files of FilePool (by index); its *)
(* directories are the ancestors of its files.  FilePool is in the order a  *)
(* depth-first walk lists the entries.                                      *)

FilePool == <<
    [path |-> ".github/ci.yml", content |-> "on: push\n"],
    [path |-> "Cargo.toml",
     content |-> "[package]\nname = \"demo\"\nversion = \"0.1.0\"\n"],
    [path |-> "a/b/c/d/e/f/g/h/i/j/Cargo.toml", content |-> "[package]\nname = \"deep\"\n"],
    [path |-> "angular.json", content |-> "{\"projects\": {\"shop\": {}}}"],
    [path |-> "bar.info.yml", content |-> "name: 'Bar'\ntype: module\n"],
    [path |-> "bar.module",
     content |-> "<?php\nfunction bar_hook_help() {}\nfunction bar_hook_help() {}\n"],
    [path |-> "composer.json", content |-> "{\"require\": {\"drupal/core\": \"^9\"}}"],
    [path |-> "core/lib/Drupal.php", content |-> "<?php\nuse Drupal\\Core\\Url;\n"],
    [path |-> "index.php", content |-> "<?php\necho 1;\n"],
    [path |-> "main.go", content |-> "package main\n"],
    [path |-> "node_modules/lib/index.js", content |-> "module.exports = 1;\n"],
    [path |-> "package.json", content |-> "{\"name\": \"shop\"}"],
    [path |-> "requirements.txt", content |-> "django\n"],
    [path |-> "src/App.jsx", content |-> "export default App;\n"],
    [path |-> "src/Plugin/Block/Hello.php",
     content |-> "<?php\n/**\n * @Implements hook_help\n */\nfunction bar_hook_help() {}\n"],
    [path |-> "src/app.ts", content |-> "export const a = 1;\n"],
    [path |-> "src/main.rs",
     content |-> "mod model;\nstruct A {}\nstruct B {}\nfn main() {}\n"],
    [path |-> "src/react-app.js", content |-> "render();\n"],
    [path |-> "web/modules/custom/foo/foo.info.yml", content |-> "name: Foo Module\n"],
    [path |-> "web/modules/custom/foo/foo.module",
     content |-> "<?php\nfunction foo_hook_cron() {}\n"]
>>

\* the project roots: an ordinary directory, and one inside a site's custom modules
RootPool == {"/srv/app", "/w/modules/custom/bar"}

RECURSIVE TreesUpTo(_)
TreesUpTo(n) ==
    IF n = 0 THEN {{}}
    ELSE LET S == TreesUpTo(n - 1) IN S \cup {s \cup {i} : s \in S, i \in 1..Len(FilePool)}

\* the trees of at most MaxFiles files
Trees == TreesUpTo(MaxFiles)

\* the members of the index set t in pool order
SeqOfSet(t) ==
    [k \in 1..Cardinality(t) |-> CHOOSE i \in t : Cardinality({j \in t : j < i}) = k - 1]

\* the files of a tree, in walk order
TreeFiles(t) == LET q == SeqOfSet(t) IN [k \in 1..Len(q) |-> FilePool[q[k]]]

FilePaths(t) == {FilePool[i].path : i \in t}

\* the proper ancestors of a relative path, outermost first
AncestorDirs(p) ==
    LET c == Split(p, "/")
        RECURSIVE Pre(_)
        Pre(n) == IF n = 0 THEN "" ELSE Join(Pre(n - 1), c[n])
    IN  [n \in 1..(Len(c) - 1) |-> Pre(n)]

\* the ancestors of every file of the pool
PoolAncestors == [i \in 1..Len(FilePool) |-> AncestorDirs(FilePool[i].path)]

AncestorsOf(p) == PoolAncestors[CHOOSE i \in 1..Len(FilePool) : FilePool[i].path = p]

DirPaths(t) == UNION {Range(PoolAncestors[i]) : i \in t}

IsFile(t, rel) == rel \in FilePaths(t)
IsDir(t, rel) == rel = "" \/ rel \in DirPaths(t)
\* Path::exists of root/rel
Exists(t, rel) == IsFile(t, rel) \/ IsDir(t, rel)

\* std::fs::read_to_string of root/rel (of a file of the tree)
ReadToString(t, rel) == FilePool[CHOOSE i \in t : FilePool[i].path = rel].content

\* the names directly inside the directory rel, in walk order, without repeats
RECURSIVE ChildrenFrom(_, _, _, _)
ChildrenFrom(fs, rel, k, seen) ==
    IF k > Len(fs) THEN <<>>
    ELSE LET p == fs[k].path
             inside == IF rel = "" THEN TRUE ELSE StartsWith(p, rel \o "/")
             rest == IF rel = "" THEN p ELSE From(p, Len(rel) + 2)
             name == FirstOf(rest, "/")
         IN  IF inside /\ name \notin seen
             THEN <<name>> \o ChildrenFrom(fs, rel, k + 1, seen \cup {name})
             ELSE ChildrenFrom(fs, rel, k + 1, seen)

\* std::fs::read_dir of root/rel
ReadDir(t, rel) == ChildrenFrom(TreeFiles(t), rel, 1, {})

\* walkdir's depth limit
MaxDepth == 10

RECURSIVE WalkFrom(_, _, _)
WalkFrom(fs, k, seen) ==
    IF k > Len(fs) THEN <<>>
    ELSE LET anc == AncestorsOf(fs[k].path)
             new == SelectSeq([n \in 1..Len(anc) |-> [path |-> anc[n], is_dir |-> TRUE,
                                                      depth |-> n]],
                              LAMBDA e : e.path \notin seen)
         IN  new \o <<[path |-> fs[k].path, is_dir |-> FALSE, depth |-> Len(anc) + 1]>>
             \o WalkFrom(fs, k + 1, seen \cup Range(anc))

\* WalkDir::new(project_path).max_depth(10) : the root, then every entry at most
\* MaxDepth levels below it, depth first; ignored directories are entered too
WalkDir(t) ==
    SelectSeq(<<[path |-> "", is_dir |-> TRUE, depth |-> 0]>>
              \o WalkFrom(TreeFiles(t), 1, {}),
              LAMBDA e : e.depth <= MaxDepth)

-----------------------------------------------------------------------------
(* ProjectAnalyzer: the feature scan.                                      *)

IgnoreDirs == {".git", "node_modules", "target", "build", "dist", "venv",
               "__pycache__", ".idea", ".vscode", "vendor", ".next", "out"}

IgnoreExtensions == {"pyc", "exe", "dll", "so", "o", "obj", "class", "jpg", "png",
                     "gif", "pdf", "bin", "lock", "woff", "woff2", "ttf"}

should_ignore_dir(path) ==
    LET dir_name == FileName(path)
    IN  dir_name \in IgnoreDirs \/ StartsWith(dir_name, ".")

should_ignore_file(path) == HasExtension(path) /\ Extension(path) \in IgnoreExtensions

ProjectFeaturesDefault == [
    has_drupal_core |-> FALSE, has_drupal_modules_dir |-> FALSE, has_info_yml |-> FALSE,
    has_drupal_module_file |-> FALSE, has_drupal_module_extension |-> FALSE,
    has_drupal_php_code |-> FALSE, has_drupal_plugin_dir |-> FALSE,
    has_src_dir |-> FALSE, has_node_modules |-> FALSE, has_git |-> FALSE,
    has_rust_target |-> FALSE,
    has_php_files |-> FALSE, has_rust_files |-> FALSE, has_python_files |-> FALSE,
    has_js_files |-> FALSE, has_ts_files |-> FALSE, has_jsx_files |-> FALSE,
    has_tsx_files |-> FALSE, has_go_files |-> FALSE,
    has_cargo_toml |-> FALSE, has_package_json |-> FALSE, has_angular_json |-> FALSE,
    has_composer_json |-> FALSE, has_pyproject_toml |-> FALSE,
    has_requirements_txt |-> FALSE, has_setup_py |-> FALSE, has_go_mod |-> FALSE ]

\* the directory arm of the scan loop (structure.rs 64-84)
ScanDir(rt, st, rel) ==
    LET path == Join(rt, rel)
        dir_name == FileName(path)
        f == st.features
    IN  IF should_ignore_dir(path) THEN st
        ELSE [st EXCEPT
                !.directories = Append(@, rel),
                !.features =
                    CASE dir_name = "core" -> [f EXCEPT !.has_drupal_core = TRUE]
                      [] dir_name = "src" -> [f EXCEPT !.has_src_dir = TRUE]
                      [] dir_name = "node_modules" -> [f EXCEPT !.has_node_modules = TRUE]
                      [] dir_name = ".git" -> [f EXCEPT !.has_git = TRUE]
                      [] dir_name = "target" -> [f EXCEPT !.has_rust_target = TRUE]
                      [] dir_name = "Plugin" ->
                            IF PathStartsWith(path, Join(rt, "src"))
                            THEN [f EXCEPT !.has_drupal_plugin_dir = TRUE] ELSE f
                      [] OTHER -> f]

\* the match on the file name (structure.rs 88-113)
ScanFileName(f, file_name, text) ==
    CASE file_name = "Cargo.toml" -> [f EXCEPT !.has_cargo_toml = TRUE]
      [] file_name = "package.json" -> [f EXCEPT !.has_package_json = TRUE]
      [] file_name = "angular.json" -> [f EXCEPT !.has_angular_json = TRUE]
      [] file_name = "composer.json" -> [f EXCEPT !.has_composer_json = TRUE]
      [] file_name = "pyproject.toml" -> [f EXCEPT !.has_pyproject_toml = TRUE]
      [] file_name = "requirements.txt" -> [f EXCEPT !.has_requirements_txt = TRUE]
      [] file_name = "setup.py" -> [f EXCEPT !.has_setup_py = TRUE]
      [] file_name = "go.mod" -> [f EXCEPT !.has_go_mod = TRUE]
      [] OTHER ->
            IF EndsWith(file_name, ".info.yml")
            THEN [f EXCEPT !.has_info_yml = TRUE,
                           !.has_drupal_module_file = @ \/ Contains(text, "type: module")]
            ELSE IF EndsWith(file_name, ".module")
                 THEN [f EXCEPT !.has_drupal_module_extension = TRUE]
                 ELSE f

\* the match on the extension (structure.rs 118-137)
ScanExtension(f, ext, text) ==
    CASE ext = "php" ->
            [f EXCEPT !.has_php_files = TRUE,
                      !.has_drupal_php_code = @
                          \/ Contains(text, "Drupal\\")
                          \/ (Contains(text, "function") /\ Contains(text, "_hook_"))
                          \/ (Contains(text, "implements") /\ Contains(text, "Hook"))]
      [] ext = "rs" -> [f EXCEPT !.has_rust_files = TRUE]
      [] ext = "py" -> [f EXCEPT !.has_python_files = TRUE]
      [] ext = "js" -> [f EXCEPT !.has_js_files = TRUE]
      [] ext = "ts" -> [f EXCEPT !.has_ts_files = TRUE]
      [] ext = "jsx" -> [f EXCEPT !.has_jsx_files = TRUE]
      [] ext = "tsx" -> [f EXCEPT !.has_tsx_files = TRUE]
      [] ext = "go" -> [f EXCEPT !.has_go_files = TRUE]
      [] OTHER -> f

\* files_by_type.entry(ext).or_insert_with(Vec::new).push(rel)
PushByType(fbt, ext, rel) ==
    IF ext \in DOMAIN fbt THEN [fbt EXCEPT ![ext] = Append(@, rel)]
    ELSE fbt @@ (ext :> <<rel>>)

\* the file arm of the scan loop (structure.rs 85-146)
ScanFile(rt, t, st, rel) ==
    LET path == Join(rt, rel)
        text == ReadToString(t, rel)
        f1 == ScanFileName(st.features, FileName(path), text)
    IN  IF should_ignore_file(path) THEN st
        ELSE IF HasExtension(path)
             THEN [st EXCEPT !.features = ScanExtension(f1, Extension(path), text),
                             !.files_by_type = PushByType(@, Extension(path), rel)]
             ELSE [st EXCEPT !.features = f1]

RECURSIVE ScanLoop(_, _, _, _, _)
ScanLoop(rt, t, w, k, st) ==
    IF k > Len(w) THEN st
    ELSE ScanLoop(rt, t, w, k + 1,
                  IF w[k].is_dir THEN ScanDir(rt, st, w[k].path)
                  ELSE ScanFile(rt, t, st, w[k].path))

\* ProjectAnalyzer::scan_project_features : the directories, the extension buckets
\* and the feature vector after the walk
scan_project_features(rt, t) ==
    LET st == ScanLoop(rt, t, WalkDir(t), 1,
                       [directories |-> <<>>, files_by_type |-> <<>>,
                        features |-> ProjectFeaturesDefault])
    IN  [st EXCEPT !.features.has_drupal_modules_dir =
                        Exists(t, "web/modules") \/ Exists(t, "modules")]

-----------------------------------------------------------------------------
(* ProjectAnalyzer: module detection and the classifier.                   *)

\* glob(dir/*suffix).count() > 0 : an entry directly in dir whose name ends so
GlobAtRoot(t, rel, suffix) == \E n \in Range(ReadDir(t, rel)) : EndsWith(n, suffix)

\* ProjectAnalyzer::is_drupal_module of the directory root/rel
is_drupal_module(rt, t, rel) ==
    LET path == Join(rt, rel)
        has_info_yml_at_root == GlobAtRoot(t, rel, ".info.yml")
        has_module_file_at_root == GlobAtRoot(t, rel, ".module")
        has_plugin_dir == Exists(t, Join(rel, "src/Plugin"))
        composer_path == Join(rel, "composer.json")
        has_drupal_dependency ==
            IF Exists(t, composer_path)
            THEN IsFile(t, composer_path)
                 /\ Contains(ReadToString(t, composer_path), "drupal/core")
            ELSE FALSE
    IN  IF Contains(path, "modules/custom") \/ Contains(path, "modules/contrib")
        THEN TRUE
        ELSE IF /\ Exists(t, Join(rel, "web/modules/custom"))
                /\ Exists(t, Join(rel, "core"))
                /\ Exists(t, Join(rel, "composer.json"))
             THEN FALSE
             ELSE has_info_yml_at_root
                  /\ (has_module_file_at_root \/ has_plugin_dir \/ has_drupal_dependency)

\* the modules found in one nested modules directory (structure.rs 302-311)
ModulesIn(rt, t, dir) ==
    IF ~IsDir(t, dir) THEN <<>>
    ELSE LET names == SelectSeq(ReadDir(t, dir),
                         LAMBDA n : IsDir(t, Join(dir, n))
                                    /\ is_drupal_module(rt, t, Join(dir, n)))
         IN  [i \in 1..Len(names) |->
                 [name |-> names[i], path |-> Join(rt, Join(dir, names[i]))]]

\* ProjectAnalyzer::find_all_drupal_modules
find_all_drupal_modules(rt, t) ==
    ModulesIn(rt, t, "web/modules/custom")
    \o ModulesIn(rt, t, "modules/custom")
    \o ModulesIn(rt, t, "web/modules/contrib")
    \o ModulesIn(rt, t, "modules/contrib")
    \o (IF is_drupal_module(rt, t, "")
        THEN <<[name |-> FileName(rt), path |-> rt]>> ELSE <<>>)

ProjectTypes == {"Drupal", "DrupalModule", "Rust", "Python", "JavaScript", "TypeScript",
                 "Go", "PHP", "Angular", "React", "Generic"}

\* the condition without the test for a modules directory
DrupalTrigger_NoModulesDir(f) ==
    f.has_drupal_core
    \/ (f.has_info_yml /\ (f.has_drupal_module_file \/ f.has_drupal_php_code))

\* the condition under which the Drupal rule looks for modules (structure.rs 165-167)
DrupalTrigger(f) ==
    LET is_drupal_site == f.has_drupal_core \/ f.has_drupal_modules_dir
    IN  is_drupal_site
        \/ (f.has_info_yml /\ (f.has_drupal_module_file \/ f.has_drupal_php_code))

\* a .js path of the mapping contains "react" (structure.rs 189-190)
HasReactJsPath(fbt) ==
    "js" \in DOMAIN fbt /\ \E i \in 1..Len(fbt["js"]) : Contains(fbt["js"][i], "react")

\* the rules after the Drupal rule with a rule of its own for .ts files
OtherProjectType_TypeScriptRule(f, fbt) ==
    IF f.has_cargo_toml THEN "Rust"
    ELSE IF f.has_angular_json /\ f.has_package_json THEN "Angular"
    ELSE IF f.has_package_json
            /\ (f.has_jsx_files \/ f.has_tsx_files \/ HasReactJsPath(fbt)) THEN "React"
    ELSE IF f.has_pyproject_toml \/ f.has_requirements_txt \/ f.has_setup_py THEN "Python"
    ELSE IF f.has_go_mod \/ f.has_go_files THEN "Go"
    ELSE IF f.has_ts_files THEN "TypeScript"
    ELSE IF f.has_js_files THEN "JavaScript"
    ELSE IF f.has_php_files THEN "PHP"
    ELSE "Generic"

\* the rules after the Drupal rule with the Angular rule tried before the Rust rule
OtherProjectType_AngularFirst(f, fbt) ==
    IF f.has_angular_json /\ f.has_package_json THEN "Angular"
    ELSE IF f.has_cargo_toml THEN "Rust"
    ELSE IF f.has_package_json
            /\ (f.has_jsx_files \/ f.has_tsx_files \/ HasReactJsPath(fbt)) THEN "React"
    ELSE IF f.has_pyproject_toml \/ f.has_requirements_txt \/ f.has_setup_py THEN "Python"
    ELSE IF f.has_go_mod \/ f.has_go_files THEN "Go"
    ELSE IF f.has_js_files \/ f.has_ts_files THEN "JavaScript"
    ELSE IF f.has_php_files THEN "PHP"
    ELSE "Generic"

\* the rules after the Drupal rule with the Python rule tried before the React rule
OtherProjectType_PythonFirst(f, fbt) ==
    IF f.has_cargo_toml THEN "Rust"
    ELSE IF f.has_angular_json /\ f.has_package_json THEN "Angular"
    ELSE IF f.has_pyproject_toml \/ f.has_requirements_txt \/ f.has_setup_py THEN "Python"
    ELSE IF f.has_package_json
            /\ (f.has_jsx_files \/ f.has_tsx_files \/ HasReactJsPath(fbt)) THEN "React"
    ELSE IF f.has_go_mod \/ f.has_go_files THEN "Go"
    ELSE IF f.has_js_files \/ f.has_ts_files THEN "JavaScript"
    ELSE IF f.has_php_files THEN "PHP"
    ELSE "Generic"

\* the rules after the Drupal rule (structure.rs 183-203)
OtherProjectType(f, fbt) ==
    IF f.has_cargo_toml THEN "Rust"
    ELSE IF f.has_angular_json /\ f.has_package_json THEN "Angular"
    ELSE IF f.has_package_json
            /\ (f.has_jsx_files \/ f.has_tsx_files \/ HasReactJsPath(fbt)) THEN "React"
    ELSE IF f.has_pyproject_toml \/ f.has_requirements_txt \/ f.has_setup_py THEN "Python"
    ELSE IF f.has_go_mod \/ f.has_go_files THEN "Go"
    ELSE IF f.has_js_files \/ f.has_ts_files THEN "JavaScript"
    ELSE IF f.has_php_files THEN "PHP"
    ELSE "Generic"

\* the classifier without the test that a module was found
determine_project_type_NoEmptyCheck(rt, t, f, fbt) ==
    IF DrupalTrigger(f)
    THEN IF is_drupal_module(rt, t, "")
         THEN [type |-> "DrupalModule", modules |-> find_all_drupal_modules(rt, t)]
         ELSE [type |-> "Drupal", modules |-> find_all_drupal_modules(rt, t)]
    ELSE [type |-> OtherProjectType(f, fbt), modules |-> <<>>]

\* ProjectAnalyzer::determine_project_type : the type and the modules list
determine_project_type(rt, t, f, fbt) ==
    LET drupal_modules == IF DrupalTrigger(f) THEN find_all_drupal_modules(rt, t) ELSE <<>>
    IN  IF DrupalTrigger(f) /\ drupal_modules # <<>>
        THEN IF is_drupal_module(rt, t, "")
             THEN [type |-> "DrupalModule", modules |-> drupal_modules]
             ELSE [type |-> "Drupal", modules |-> drupal_modules]
        ELSE [type |-> OtherProjectType(f, fbt), modules |-> <<>>]

-----------------------------------------------------------------------------
(* ProjectAnalyzer: the type-specific info gatherers.                      *)

\* [a-zA-Z0-9_]
IsWordChar(c) ==
    Contains("abcdefghijklmnopqrstuvwxyzABCDEFGHIJKLMNOPQRSTUVWXYZ0123456789_", c)

\* the first index from i on that holds no white space (\s+ is greedy)
SkipSpace(s, i) ==
    MinOf({j \in i..(Len(s) + 1) : j = Len(s) + 1 \/ ~IsSpace(SubSeq(s, j, j))})

\* the first index from i on that holds no character of [a-zA-Z0-9_]
WordEnd(s, i) ==
    MinOf({j \in i..(Len(s) + 1) : j = Len(s) + 1 \/ ~IsWordChar(SubSeq(s, j, j))})

\* the longest run of [a-zA-Z0-9_] that starts at i
WordAt(s, i) == Sub(s, i, WordEnd(s, i) - 1)

RECURSIVE FunctionHooksFrom(_, _)
FunctionHooksFrom(s, i) ==
    LET f == FindFrom(s, "function", i)
        j == SkipSpace(s, f + 8)
        r == WordAt(s, j)
        \* ([a-zA-Z0-9_]+) is greedy: the last "_hook_" with a name after it
        ps == {q \in 2..(Len(r) - 6) : SubSeq(r, q, q + 5) = "_hook_"}
    IN  IF f = 0 THEN <<>>
        ELSE IF j > f + 8 /\ ps # {}
             THEN <<"hook_" \o From(r, MaxOf(ps) + 6)>> \o FunctionHooksFrom(s, j + Len(r))
             ELSE FunctionHooksFrom(s, f + 1)

\* hook_regex.captures_iter(content) mapped to format!("hook_{}", &cap[2]), for
\* function\s+([a-zA-Z0-9_]+)_hook_([a-zA-Z0-9_]+)
FunctionHooks(s) == FunctionHooksFrom(s, 1)

\* the next "@Implements" or "@implements" at or after i, 0 for none
NextImplements(s, i) ==
    LET a == FindFrom(s, "@Implements", i)
        b == FindFrom(s, "@implements", i)
    IN  IF a = 0 THEN b ELSE IF b = 0 THEN a ELSE Min(a, b)

RECURSIVE AnnotationHooksFrom(_, _)
AnnotationHooksFrom(s, i) ==
    LET f == NextImplements(s, i)
        j == SkipSpace(s, f + 11)
        r == WordAt(s, j + 5)
    IN  IF f = 0 THEN <<>>
        ELSE IF j > f + 11 /\ Sub(s, j, j + 4) = "hook_" /\ r # ""
             THEN <<"hook_" \o r>> \o AnnotationHooksFrom(s, j + 5 + Len(r))
             ELSE AnnotationHooksFrom(s, f + 1)

\* annotation_regex.captures_iter(content) mapped to format!("hook_{}", &cap[2]), for
\* @(Implements|implements)\s+hook_([a-zA-Z0-9_]+)
AnnotationHooks(s) == AnnotationHooksFrom(s, 1)

RECURSIVE PushAll(_, _)
\* hooks.push(h) for every h of q
PushAll(hooks, q) == IF q = <<>> THEN hooks ELSE PushAll(Append(hooks, Head(q)), Tail(q))

RECURSIVE PushNew(_, _)
\* if !hooks.contains(&h) { hooks.push(h) } for every h of q
PushNew(hooks, q) ==
    IF q = <<>> THEN hooks
    ELSE PushNew(IF InSeq(hooks, Head(q)) THEN hooks ELSE Append(hooks, Head(q)), Tail(q))

\* files_by_type.get(ext), an absent key giving no file
FilesOfType(fbt, ext) == IF ext \in DOMAIN fbt THEN fbt[ext] ELSE <<>>

RECURSIVE PhpHooks(_, _, _, _)
\* the loop over the PHP files (structure.rs 446-475)
PhpHooks(t, php_files, k, hooks) ==
    IF k > Len(php_files) THEN hooks
    ELSE LET text == ReadToString(t, php_files[k])
         IN  PhpHooks(t, php_files, k + 1,
                      PushNew(PushNew(hooks, FunctionHooks(text)), AnnotationHooks(text)))

\* the value of a "key:" line of an info file (structure.rs 356, 358)
InfoValue(line, key) == TrimMatches(TrimMatches(Trim(TrimStartMatches(line, key)), "\""), "'")

RECURSIVE LastInfoValue(_, _, _, _)
LastInfoValue(ls, key, k, acc) ==
    IF k > Len(ls) THEN acc
    ELSE LastInfoValue(ls, key, k + 1,
                       IF StartsWith(ls[k], key) THEN InfoValue(ls[k], key) ELSE acc)

NoInfo == [some |-> FALSE]

\* ProjectAnalyzer::gather_drupal_module_info
gather_drupal_module_info(rt, t, fbt) ==
    LET yml == FilesOfType(fbt, "yml")
        info_yml_files == SelectSeq(yml, LAMBDA q : EndsWith(q, ".info.yml"))
        at_root == SelectSeq(info_yml_files, LAMBDA q : Parent(q) = "")
        info_file == IF at_root # <<>> THEN at_root[1] ELSE info_yml_files[1]
        ls == Lines(ReadToString(t, info_file))
        module_name == LastInfoValue(ls, "name:", 1, "")
        stem == FileStem(info_file)
        module_file_name == IF EndsWith(stem, ".info") THEN TrimEndMatches(stem, ".info")
                            ELSE stem
        module_path == module_file_name \o ".module"
        has_module_file == Exists(t, module_path)
        module_text == IF IsFile(t, module_path) THEN ReadToString(t, module_path) ELSE ""
        hooks0 == IF IsFile(t, module_path) THEN PushAll(<<>>, FunctionHooks(module_text))
                  ELSE <<>>
    IN  IF info_yml_files = <<>> THEN NoInfo
        ELSE [some |-> TRUE,
              name |-> IF module_name = "" THEN module_file_name ELSE module_name,
              description |-> LastInfoValue(ls, "description:", 1, ""),
              module_file |-> IF has_module_file THEN module_path ELSE "",
              info_file |-> info_file,
              config_schemas |-> SelectSeq(yml, LAMBDA q : Contains(q, "/config/schema/")),
              has_plugins |-> Exists(t, "src/Plugin")
                              \/ Contains(module_text, "Plugin")
                              \/ Contains(module_text, "plugin"),
              has_services |-> Exists(t, module_file_name \o ".services.yml")
                               \/ \E i \in 1..Len(yml) : EndsWith(yml[i], ".services.yml"),
              hooks |-> PhpHooks(t, FilesOfType(fbt, "php"), 1, hooks0)]

\* line.split('=').nth(1) trimmed of blanks and quotes, "" when there is no '='
TomlValue(line) ==
    LET q == Split(line, "=")
    IN  IF Len(q) < 2 THEN "" ELSE TrimMatches(TrimMatches(Trim(q[2]), "\""), "'")

RECURSIVE LastTomlValue(_, _, _, _)
\* the loop over the lines of Cargo.toml (structure.rs 507-517), for one of its two keys
LastTomlValue(ls, key, k, acc) ==
    IF k > Len(ls) THEN acc
    ELSE LastTomlValue(ls, key, k + 1,
                       IF StartsWith(Trim(ls[k]), key) THEN TomlValue(ls[k]) ELSE acc)

RECURSIVE CountInFiles(_, _, _, _)
\* the sum over the files of content.matches(pat).count()
CountInFiles(t, files, pat, k) ==
    IF k > Len(files) THEN 0
    ELSE CountMatches(ReadToString(t, files[k]), pat) + CountInFiles(t, files, pat, k + 1)

\* gather_rust_project_info counting the patterns without their trailing blank
gather_rust_project_info_NoBlank(rt, t, fbt) ==
    LET ls == IF IsFile(t, "Cargo.toml") THEN Lines(ReadToString(t, "Cargo.toml")) ELSE <<>>
        rs_files == FilesOfType(fbt, "rs")
    IN  IF ~Exists(t, "Cargo.toml") THEN NoInfo
        ELSE [some |-> TRUE,
              name |-> LastTomlValue(ls, "name", 1, ""),
              version |-> LastTomlValue(ls, "version", 1, ""),
              module_count |-> CountInFiles(t, rs_files, "mod", 1),
              struct_count |-> CountInFiles(t, rs_files, "struct", 1),
              has_lib |-> Exists(t, "src/lib.rs"),
              has_bin |-> Exists(t, "src/main.rs") \/ Exists(t, "src/bin")]

\* ProjectAnalyzer::gather_rust_project_info
gather_rust_project_info(rt, t, fbt) ==
    LET ls == IF IsFile(t, "Cargo.toml") THEN Lines(ReadToString(t, "Cargo.toml")) ELSE <<>>
        rs_files == FilesOfType(fbt, "rs")
    IN  IF ~Exists(t, "Cargo.toml") THEN NoInfo
        ELSE [some |-> TRUE,
              name |-> LastTomlValue(ls, "name", 1, ""),
              version |-> LastTomlValue(ls, "version", 1, ""),
              module_count |-> CountInFiles(t, rs_files, "mod ", 1),
              struct_count |-> CountInFiles(t, rs_files, "struct ", 1),
              has_lib |-> Exists(t, "src/lib.rs"),
              has_bin |-> Exists(t, "src/main.rs") \/ Exists(t, "src/bin")]

\* ProjectAnalyzer::gather_angular_project_info : None without angular.json at the
\* root; of the summary, the counts by file name suffix
gather_angular_project_info(rt, t, fbt) ==
    LET ts == FilesOfType(fbt, "ts")
    IN  IF ~Exists(t, "angular.json") THEN NoInfo
        ELSE [some |-> TRUE,
              has_routing |-> \E i \in 1..Len(ts) :
                                 Contains(ts[i], "routing") \/ Contains(ts[i], "routes")]

\* ProjectAnalyzer::gather_react_project_info : None without package.json at the root
gather_react_project_info(rt, t, fbt) ==
    IF ~Exists(t, "package.json") THEN NoInfo
    ELSE [some |-> TRUE,
          has_typescript |-> "tsx" \in DOMAIN fbt \/ "ts" \in DOMAIN fbt]

\* ProjectAnalyzer::gather_python_project_info : always Some
gather_python_project_info(rt, t, fbt) ==
    [some |-> TRUE,
     class_count |-> CountInFiles(t, FilesOfType(fbt, "py"), "class ", 1),
     function_count |-> CountInFiles(t, FilesOfType(fbt, "py"), "def ", 1)]

\* the match on the project type (structure.rs 23-40)
GatherSpecific(ty, rt, t, fbt) ==
    CASE ty = "DrupalModule" ->
            [variant |-> "Drupal", info |-> gather_drupal_module_info(rt, t, fbt)]
      [] ty = "Rust" -> [variant |-> "Rust", info |-> gather_rust_project_info(rt, t, fbt)]
      [] ty = "Angular" ->
            [variant |-> "Angular", info |-> gather_angular_project_info(rt, t, fbt)]
      [] ty = "React" -> [variant |-> "React", info |-> gather_react_project_info(rt, t, fbt)]
      [] ty = "Python" ->
            [variant |-> "Python", info |-> gather_python_project_info(rt, t, fbt)]
      [] OTHER -> [variant |-> "None", info |-> NoInfo]

-----------------------------------------------------------------------------
(* fs/search.rs : the relevance score of a content for a keyword list.     *)

\* some member of the set ts occurs in s
ContainsAny(s, ts) == \E t \in ts : Contains(s, t)

\* search.rs 232-308 : the signatures of a (lower-cased) content
detect_language_signatures(c) ==
    [is_rust |-> Contains(c, "fn ")
                 /\ ContainsAny(c, {"struct ", "impl ", "pub ", "use std::", "mod "}),
     is_python |-> Contains(c, "def ")
                   /\ ContainsAny(c, {"import ", "class ", "if __name__ == ", "self."}),
     is_php |-> \/ Contains(c, "<?php")
                \/ Contains(c, "namespace") /\ Contains(c, ";")
                \/ Contains(c, "use ") /\ Contains(c, "\\") /\ Contains(c, ";"),
     is_javascript |-> Contains(c, "function")
                       /\ ContainsAny(c, {"var ", "let ", "const ", "import ", "export "}),
     is_angular |-> ContainsAny(c, {"@component", "@injectable", "@ngmodule"}),
     is_react |-> Contains(c, "react")
                  /\ ContainsAny(c, {"component", "render", "jsx", "</>"}),
     is_go |-> Contains(c, "package ")
               /\ \/ Contains(c, "func ")
                  \/ Contains(c, "import (")
                  \/ Contains(c, "type ") /\ Contains(c, "struct {"),
     is_drupal |-> ContainsAny(c, {"drupal", "hook_", "module_implements", "@plugin",
                                   "pluginbase", "\\plugin\\", "\\form\\", "\\entity\\",
                                   "drupalconsole", "@implements"}),
     is_drupal_info |-> ContainsAny(c, {"type: module", "core_version_requirement",
                                        "core: "}),
     is_drupal_services |-> Contains(c, "services:") /\ Contains(c, "class:"),
     is_drupal_template |-> ContainsAny(c, {"{{ content }}", "{{ attach_library",
                                            "{{ 'drupal"})]

\* search.rs 311-337 : the multiplier of a (lower-cased) keyword, first branch first
get_language_boost(keyword, signatures) ==
    IF signatures.is_rust
       /\ (keyword = "rust" \/ ContainsAny(keyword, {"fn ", "struct ", "impl "}))
    THEN 3
    ELSE IF signatures.is_python
            /\ (keyword = "python" \/ ContainsAny(keyword, {"def ", "import ", "class "}))
    THEN 3
    ELSE IF signatures.is_php /\ (keyword = "php" \/ Contains(keyword, "php"))
    THEN 3
    ELSE IF signatures.is_drupal
            /\ (keyword = "drupal" \/ ContainsAny(keyword, {"drupal", "module"}))
    THEN 4
    ELSE IF signatures.is_drupal_info /\ ContainsAny(keyword, {"info", "configuration"})
    THEN 5
    ELSE IF signatures.is_drupal_services /\ ContainsAny(keyword, {"service", "dependency"})
    THEN 5
    ELSE IF signatures.is_drupal_template /\ ContainsAny(keyword, {"template", "twig"})
    THEN 5
    ELSE IF signatures.is_javascript /\ ContainsAny(keyword, {"js", "javascript"})
    THEN 3
    ELSE IF signatures.is_angular
            /\ ContainsAny(keyword, {"angular", "component", "service"})
    THEN 4
    ELSE IF signatures.is_react /\ ContainsAny(keyword, {"react", "component", "jsx"})
    THEN 4
    ELSE IF signatures.is_go
            /\ (keyword = "go" \/ ContainsAny(keyword, {"golang", "func "}))
    THEN 3
    ELSE 1

\* how many of the (lower-cased) keywords hold a member of ts
CountKeywords(ks, ts) == Cardinality({i \in 1..Len(ks) : ContainsAny(ks[i], ts)})

\* search.rs 340-414 : the language most keywords speak of; ties go to the first of
\* Drupal, Rust, Python, JavaScript, PHP, Go
detect_search_language(keywords_in) ==
    LET ks == [i \in 1..Len(keywords_in) |-> ToLower(keywords_in[i])]
        rust_count == CountKeywords(ks, {"rust", "cargo", "crate", "fn "})
        python_count == CountKeywords(ks, {"python", "django", "flask", "def "})
        php_count == CountKeywords(ks, {"php"})
        drupal_count == CountKeywords(ks, {"drupal", "hook_", "module", "block", "entity",
                                           "field", "form", "plugin", "token"})
        js_count == CountKeywords(ks, {"js", "javascript", "angular", "react", "node",
                                       "component", "directive"})
        go_count == CountKeywords(ks, {"go", "golang", "func "})
        max_count == MaxOf({rust_count, python_count, php_count, drupal_count,
                            js_count, go_count})
    IN  IF max_count > 0
        THEN IF drupal_count = max_count THEN "Drupal"
             ELSE IF rust_count = max_count THEN "Rust"
             ELSE IF python_count = max_count THEN "Python"
             ELSE IF js_count = max_count THEN "JavaScript"
             ELSE IF php_count = max_count THEN "PHP"
             ELSE IF go_count = max_count THEN "Go"
             ELSE "Generic"
        ELSE "Generic"

\* the score with each keyword's share assigned, not added
KeywordScore_Assign(cl, ks, sg, k) ==
    IF k = 0 THEN 0
    ELSE LET keyword_lower == ToLower(ks[k])
             count == CountMatches(cl, keyword_lower)
             language_match == get_language_boost(keyword_lower, sg)
         IN  IF language_match > 1 THEN count * language_match ELSE count

RECURSIVE KeywordScore(_, _, _, _)
\* search.rs 129-143 : the score after the first k keywords, each adding its
\* occurrences in the lower-cased content times its multiplier
KeywordScore(cl, ks, sg, k) ==
    IF k = 0 THEN 0
    ELSE LET keyword_lower == ToLower(ks[k])
             count == CountMatches(cl, keyword_lower)
             language_match == get_language_boost(keyword_lower, sg)
         IN  KeywordScore(cl, ks, sg, k - 1)
             + (IF language_match > 1 THEN count * language_match ELSE count)

Bonus(b, n) == IF b THEN n ELSE 0

\* search.rs 192-196 : some keyword names a Drupal component
component_search(ks) ==
    \E i \in 1..Len(ks) :
        ContainsAny(ToLower(ks[i]),
                    {"plugin", "block", "field", "form", "controller", "entity"})

\* the bonuses without the one of a Python search
LanguageBonus_NoPython(lang, sg, cl, ks) ==
    CASE lang = "Rust" -> Bonus(sg.is_rust, 25)
      [] lang = "Python" -> 0
      [] lang = "JavaScript" -> Bonus(sg.is_javascript, 20) + Bonus(sg.is_angular, 25)
                                + Bonus(sg.is_react, 25)
      [] lang = "PHP" -> Bonus(sg.is_php, 25)
      [] lang = "Drupal" ->
            Bonus(sg.is_drupal, 30) + Bonus(sg.is_drupal_info, 35)
            + Bonus(sg.is_drupal_services, 35) + Bonus(sg.is_drupal_template, 25)
            + Bonus(component_search(ks) /\ Contains(cl, "\\plugin\\"), 40)
            + Bonus(component_search(ks) /\ Contains(cl, "\\form\\"), 40)
            + Bonus(component_search(ks) /\ Contains(cl, "\\entity\\"), 40)
      [] lang = "Go" -> Bonus(sg.is_go, 25)
      [] OTHER -> 0

\* the bonuses with one amount at most: the first that applies
LanguageBonus_FirstOnly(lang, sg, cl, ks) ==
    CASE lang = "Rust" -> Bonus(sg.is_rust, 25)
      [] lang = "Python" -> Bonus(sg.is_python, 25)
      [] lang = "JavaScript" -> IF sg.is_javascript THEN 20
                                ELSE IF sg.is_angular \/ sg.is_react THEN 25 ELSE 0
      [] lang = "PHP" -> Bonus(sg.is_php, 25)
      [] lang = "Drupal" ->
            IF sg.is_drupal THEN 30
            ELSE IF sg.is_drupal_info \/ sg.is_drupal_services THEN 35
            ELSE IF sg.is_drupal_template THEN 25 ELSE 0
      [] lang = "Go" -> Bonus(sg.is_go, 25)
      [] OTHER -> 0

\* search.rs 149-218 : what a file of the searched language gains
LanguageBonus(lang, sg, cl, ks) ==
    CASE lang = "Rust" -> Bonus(sg.is_rust, 25)
      [] lang = "Python" -> Bonus(sg.is_python, 25)
      [] lang = "JavaScript" -> Bonus(sg.is_javascript, 20) + Bonus(sg.is_angular, 25)
                                + Bonus(sg.is_react, 25)
      [] lang = "PHP" -> Bonus(sg.is_php, 25)
      [] lang = "Drupal" ->
            Bonus(sg.is_drupal, 30) + Bonus(sg.is_drupal_info, 35)
            + Bonus(sg.is_drupal_services, 35) + Bonus(sg.is_drupal_template, 25)
            + Bonus(component_search(ks) /\ Contains(cl, "\\plugin\\"), 40)
            + Bonus(component_search(ks) /\ Contains(cl, "\\form\\"), 40)
            + Bonus(component_search(ks) /\ Contains(cl, "\\entity\\"), 40)
      [] lang = "Go" -> Bonus(sg.is_go, 25)
      [] OTHER -> 0

\* the penalty as a subtraction
Penalize_Subtract(lang, sg, cl, sc) ==
    IF lang = "Drupal" /\ sg.is_javascript /\ ~Contains(cl, "drupal")
    THEN sc - 2 ELSE sc

\* search.rs 221-225 : a Drupal search halves a JavaScript file that does not
\* mention drupal
Penalize(lang, sg, cl, sc) ==
    IF lang = "Drupal" /\ sg.is_javascript /\ ~Contains(cl, "drupal")
    THEN sc \div 2 ELSE sc

\* the score of the keyword occurrences alone
calculate_relevance_KeywordsOnly(c, ks) ==
    KeywordScore(ToLower(c), ks, detect_language_signatures(ToLower(c)), Len(ks))

\* search.rs 121-229
calculate_relevance(c, ks) ==
    LET content_lower == ToLower(c)
        lang_signatures == detect_language_signatures(content_lower)
        search_language == detect_search_language(ks)
    IN  Penalize(search_language, lang_signatures, content_lower,
                 KeywordScore(content_lower, ks, lang_signatures, Len(ks))
                 + LanguageBonus(search_language, lang_signatures, content_lower, ks))

-----------------------------------------------------------------------------
(* fs/search.rs : the two searches over the files a walk yields.  A file   *)
(* is a record of its path below the searched root, the length its         *)
(* metadata reports, its text (an excerpt for a large file) and the fault, *)
(* if any, that meets the code on it: "walk" (the walk yields Err for the  *)
(* entry), "dangling" (a link to nothing: path.is_file() is false), "stat" *)
(* (the file is there for path.is_file() and gone for std::fs::metadata),  *)
(* "read" (read_to_string fails, the bytes are no UTF-8).                  *)

SizeCeiling == 1024 * 1024

SearchPool == <<
    [path |-> "src/app.py", len |-> 25, text |-> "import django\ndef view():",
     fault |-> "none"],
    [path |-> "src/util.py", len |-> 25, text |-> "import os\ndef main():\n  0",
     fault |-> "none"],
    [path |-> "bin/tool.exe", len |-> 20, text |-> "python django python",
     fault |-> "none"],
    [path |-> "data/big.py", len |-> SizeCeiling + 1,
     text |-> "import django\ndef view():\n# python django", fault |-> "none"],
    [path |-> "data/edge.py", len |-> SizeCeiling, text |-> "# django\n",
     fault |-> "none"],
    [path |-> "node_modules/lib/index.js", len |-> 30,
     text |-> "function django() { let x; }\n", fault |-> "none"],
    [path |-> "notes.txt", len |-> 13, text |-> "nothing here\n", fault |-> "none"],
    [path |-> ".env", len |-> 14, text |-> "DJANGO=python\n", fault |-> "none"],
    [path |-> "gone.py", len |-> 7, text |-> "django\n", fault |-> "stat"],
    [path |-> "latin1.py", len |-> 7, text |-> "django\n", fault |-> "read"],
    [path |-> "locked/view.py", len |-> 7, text |-> "django\n", fault |-> "walk"],
    [path |-> "link.py", len |-> 7, text |-> "django\n", fault |-> "dangling"],
    [path |-> "yarn.lock", len |-> 14, text |-> "django@1.0.0:\n", fault |-> "none"] >>

\* search.rs 102-106
binary_extensions ==
    {"exe", "dll", "obj", "bin", "so", "dylib", "a", "o", "class", "pyc", "pyd",
     "jpg", "jpeg", "png", "gif", "bmp", "ico", "svg", "pdf", "zip", "tar", "gz",
     "tgz", "rar", "7z", "jar", "war"}

\* the test without the size ceiling
is_binary_or_large_file_NoSizeCheck(f) ==
    IF Extension(f.path) \in binary_extensions THEN [ok |-> TRUE, value |-> TRUE]
    ELSE IF f.fault = "stat" THEN [ok |-> FALSE, value |-> FALSE]
    ELSE [ok |-> TRUE, value |-> FALSE]

\* search.rs 95-119 : Ok(true), Ok(false), or the Err of std::fs::metadata
is_binary_or_large_file(f) ==
    IF Extension(f.path) \in binary_extensions THEN [ok |-> TRUE, value |-> TRUE]
    ELSE IF f.fault = "stat" THEN [ok |-> FALSE, value |-> FALSE]
    ELSE IF f.len > SizeCeiling THEN [ok |-> TRUE, value |-> TRUE]
    ELSE [ok |-> TRUE, value |-> FALSE]

\* a component of the path starts with a dot
IsHidden(p) == LET c == Split(p, "/") IN \E k \in 1..Len(c) : StartsWith(c[k], ".")

\* search.rs 23-25, 62-64 : ignore::Walk with its standard filters leaves hidden
\* entries out; an entry it cannot read is an Err the loop passes over
WalkYields(f) == ~IsHidden(f.path) /\ f.fault # "walk"

\* search.rs 28-30, 67-69 : path.is_file()
PathIsFile(f) == f.fault # "dangling"

RECURSIVE InsertByRelevance_BeforeEqual(_, _)
\* the place of x in a sort that puts a later entry before its equals
InsertByRelevance_BeforeEqual(q, x) ==
    IF q = <<>> THEN <<x>>
    ELSE IF Head(q).relevance > x.relevance
         THEN <<Head(q)>> \o InsertByRelevance_BeforeEqual(Tail(q), x)
    ELSE <<x>> \o q

RECURSIVE InsertByRelevance(_, _)
\* the place of x in a list sorted by b.1.cmp(&a.1): after every entry that
\* scores at least as much (the sort is stable)
InsertByRelevance(q, x) ==
    IF q = <<>> THEN <<x>>
    ELSE IF Head(q).relevance >= x.relevance THEN <<Head(q)>> \o InsertByRelevance(Tail(q), x)
    ELSE <<x>> \o q

RECURSIVE SortByRelevance(_)
\* search.rs 50 : path_relevance.sort_by(|a, b| b.1.cmp(&a.1))
SortByRelevance(q) ==
    IF q = <<>> THEN <<>>
    ELSE InsertByRelevance(SortByRelevance(SubSeq(q, 1, Len(q) - 1)), q[Len(q)])

Paths(q) == [k \in 1..Len(q) |-> q[k].path]

NoRun == [err |-> FALSE, found |-> <<>>, read |-> {}, scored |-> {}]

RECURSIVE FindLoop(_, _, _, _)
\* search.rs 23-47 : the loop over the entries, from entry k on
FindLoop(fs, ks, k, st) ==
    IF k > Len(fs) THEN st
    ELSE LET f == SearchPool[fs[k]]
             skip == is_binary_or_large_file(f)
             relevance == calculate_relevance(f.text, ks)
         IN  IF ~WalkYields(f) \/ ~PathIsFile(f) THEN FindLoop(fs, ks, k + 1, st)
             ELSE IF ~skip.ok THEN [st EXCEPT !.err = TRUE]
             ELSE IF skip.value THEN FindLoop(fs, ks, k + 1, st)
             ELSE IF f.fault = "read"
                  THEN FindLoop(fs, ks, k + 1, [st EXCEPT !.read = @ \cup {f.path}])
             ELSE FindLoop(fs, ks, k + 1,
                    [st EXCEPT !.read = @ \cup {f.path},
                               !.scored = @ \cup {f.path},
                               !.found = IF relevance > 0
                                         THEN Append(@, [path |-> f.path,
                                                         relevance |-> relevance])
                                         ELSE @])

\* the search without the early return for an empty keyword list
find_relevant_files_NoEmptyCheck(fs, ks) ==
    LET st == FindLoop(fs, ks, 1, NoRun)
    IN  IF st.err THEN st
        ELSE [st EXCEPT !.found = Paths(SortByRelevance(st.found))]

\* search.rs 13-56
find_relevant_files(fs, ks) ==
    IF ks = <<>> THEN NoRun
    ELSE LET st == FindLoop(fs, ks, 1, NoRun)
         IN  IF st.err THEN st
             ELSE [st EXCEPT !.found = Paths(SortByRelevance(st.found))]

\* the patterns searched for: literal texts, and one that is no regular expression
PatternPool == {"django", "def ", "("}

\* search.rs 60 : Regex::new fails on the unclosed group
RegexNew(p) == [ok |-> ~Contains(p, "(")]

\* Regex::is_match of a literal pattern: the line holds it
IsMatch(p, line) == Contains(line, p)

\* search.rs 79-87 : one SearchResult for each matching line of a file
MatchesIn(f, p) ==
    LET ls == Lines(f.text)
        hit == {i \in 1..Len(ls) : IsMatch(p, ls[i])}
        q == SeqOfSet(hit)
    IN  [k \in 1..Len(q) |-> [file_path |-> f.path, line_number |-> q[k],
                              line_content |-> ls[q[k]]]]

RECURSIVE SearchLoop(_, _, _, _)
\* search.rs 62-90 : the loop over the entries, from entry k on
SearchLoop(fs, p, k, st) ==
    IF k > Len(fs) THEN st
    ELSE LET f == SearchPool[fs[k]]
             skip == is_binary_or_large_file(f)
         IN  IF ~WalkYields(f) \/ ~PathIsFile(f) THEN SearchLoop(fs, p, k + 1, st)
             ELSE IF ~skip.ok THEN [st EXCEPT !.err = TRUE]
             ELSE IF skip.value THEN SearchLoop(fs, p, k + 1, st)
             ELSE IF f.fault = "read"
                  THEN SearchLoop(fs, p, k + 1, [st EXCEPT !.read = @ \cup {f.path}])
             ELSE SearchLoop(fs, p, k + 1,
                    [st EXCEPT !.read = @ \cup {f.path},
                               !.scored = @ \cup {f.path},
                               !.found = @ \o MatchesIn(f, p)])

\* the search that compiles its pattern after the walk
search_in_files_CompileLate(fs, p) ==
    IF ~RegexNew(p).ok THEN [SearchLoop(fs, p, 1, NoRun) EXCEPT !.err = TRUE]
    ELSE SearchLoop(fs, p, 1, NoRun)

\* search.rs 58-93
search_in_files(fs, p) ==
    IF ~RegexNew(p).ok THEN [NoRun EXCEPT !.err = TRUE]
    ELSE SearchLoop(fs, p, 1, NoRun)

\* the Result of a call: Ok(found) or Err
ResultOf(st) == IF st.err THEN [ok |-> FALSE, value |-> <<>>]
                ELSE [ok |-> TRUE, value |-> st.found]

-----------------------------------------------------------------------------
(* analysis/parser.rs : the structural extraction of a JavaScript or       *)
(* TypeScript text.  A CodeElement is a record of its name, kind, 1-based  *)
(* line and annotations (description is None throughout).                  *)

\* str::strip_prefix(t).unwrap() on a text known to start with t
StripPrefix(s, t) == From(s, Len(t) + 1)

\* the text of the lines, each ended by a line feed
RECURSIVE JoinLines(_)
JoinLines(ls) == IF ls = <<>> THEN "" ELSE Head(ls) \o "\n" \o JoinLines(Tail(ls))

Element(name, kind, line, annotations) ==
    [name |-> name, kind |-> kind, line |-> line, annotations |-> annotations]

Names(q) == {q[k].name : k \in 1..Len(q)}

\* parser.rs 154-155, 205-206, 264-265 : the word after "class ", up to a blank or
\* an opening brace
ClassName(l) == Trim(FirstOf(FirstOf(StripPrefix(l, "class "), " "), "{"))

\* parser.rs 151-175, 178-202 : the first line among the five from k on that
\* starts with "class ", 0 for none
ClassAhead(lines, k) ==
    LET h == {i \in k..Min(k + 4, Len(lines)) : StartsWith(Trim(lines[i]), "class ")}
    IN  IF h = {} THEN 0 ELSE MinOf(h)

\* parser.rs 227-236 : within twenty lines a "return (" with a "<" on its line or
\* on the next
HasJsx(lines, k) ==
    \E i \in k..Min(k + 19, Len(lines)) :
        /\ Contains(Trim(lines[i]), "return (")
        /\ \/ Contains(Trim(lines[i]), "<")
           \/ i + 1 <= Len(lines) /\ Contains(lines[i + 1], "<")

\* parser.rs 217-223 : the name of a functional component, none for other lines
ComponentName(line) ==
    IF StartsWith(line, "function ")
    THEN [some |-> TRUE, name |-> Trim(FirstOf(StripPrefix(line, "function "), "("))]
    ELSE IF StartsWith(line, "const ") /\ Contains(line, " = ")
    THEN [some |-> TRUE, name |-> Trim(FirstOf(StripPrefix(line, "const "), " = "))]
    ELSE [some |-> FALSE, name |-> ""]

NoElements == [components |-> <<>>, hooks |-> <<>>, classes |-> <<>>,
               functions |-> <<>>, panicked |-> FALSE]

\* the test that never finds the name
AlreadyComponent_Never(st, name) == FALSE

\* parser.rs 267, 282, 298 : components.iter().any(|c| c.name == name)
AlreadyComponent(st, name) == name \in Names(st.components)

\* parser.rs 283 : hooks.iter().any(|h| h.name == name)
AlreadyHook(st, name) == name \in Names(st.hooks)

\* parser.rs 146-308 : what line k adds to the four lists; the unwrap of line 205
\* panics on a line that holds "class " without starting with it
JsLine(text, lines, is_react, is_angular, k, st) ==
    LET line == Trim(lines[k])
        ahead == ClassAhead(lines, k)
        cname == ComponentName(line)
        fname == Trim(FirstOf(StripPrefix(line, "function "), "("))
        aname == Trim(FirstOf(StripPrefix(line, "const "), " = "))
    IN  IF is_angular /\ Contains(line, "@Component")
        THEN IF ahead = 0 THEN st
             ELSE [st EXCEPT !.components =
                      Append(@, Element(ClassName(Trim(lines[ahead])), "angular_component",
                                        k, <<"@Component">>))]
        ELSE IF is_angular /\ Contains(line, "@Injectable")
        THEN IF ahead = 0 THEN st
             ELSE [st EXCEPT !.components =
                      Append(@, Element(ClassName(Trim(lines[ahead])), "angular_service",
                                        k, <<"@Injectable">>))]
        ELSE IF is_react /\ Contains(line, "class ")
                /\ Contains(line, "extends React.Component")
        THEN IF ~StartsWith(line, "class ") THEN [st EXCEPT !.panicked = TRUE]
             ELSE [st EXCEPT !.components =
                      Append(@, Element(ClassName(line), "react_component", k, <<>>))]
        ELSE IF is_react /\ (Contains(line, "function ") \/ Contains(line, "const "))
                /\ Contains(From(text, k), "return (")
        THEN IF cname.some /\ HasJsx(lines, k)
             THEN [st EXCEPT !.components =
                      Append(@, Element(cname.name, "react_component", k, <<>>))]
             ELSE st
        ELSE IF is_react /\ Contains(line, "use") /\ StartsWith(line, "function ")
        THEN IF StartsWith(fname, "use")
             THEN [st EXCEPT !.hooks = Append(@, Element(fname, "react_hook", k, <<>>))]
             ELSE st
        ELSE IF StartsWith(line, "class ")
        THEN IF ~AlreadyComponent(st, ClassName(line))
             THEN [st EXCEPT !.classes =
                      Append(@, Element(ClassName(line), "class", k, <<>>))]
             ELSE st
        ELSE IF StartsWith(line, "function ")
        THEN IF ~AlreadyComponent(st, fname) /\ ~AlreadyHook(st, fname)
             THEN [st EXCEPT !.functions = Append(@, Element(fname, "function", k, <<>>))]
             ELSE st
        ELSE IF StartsWith(line, "const ") /\ Contains(line, " = (") /\ Contains(line, "=>")
        THEN IF ~AlreadyComponent(st, aname)
             THEN [st EXCEPT !.functions = Append(@, Element(aname, "function", k, <<>>))]
             ELSE st
        ELSE st

RECURSIVE JsLoop(_, _, _, _, _, _)
\* parser.rs 145 : for line_idx in 0..lines.len()
JsLoop(text, lines, is_react, is_angular, k, st) ==
    IF k > Len(lines) \/ st.panicked THEN st
    ELSE JsLoop(text, lines, is_react, is_angular, k + 1,
                JsLine(text, lines, is_react, is_angular, k, st))

\* parser.rs 123-322 : Ok(FileStructure) with the components, hooks, classes and
\* functions in that order, or the panic
analyze_javascript_file(text) ==
    LET is_react == ContainsAny(text, {"import React", "from 'react'",
                                          "extends React.Component", "<React.", "<>"})
        is_angular == ContainsAny(text, {"@Component", "@NgModule", "@Injectable",
                                            "@Input(", "@Output("})
        st == JsLoop(text, Lines(text), is_react, is_angular, 1, NoElements)
    IN  IF st.panicked THEN [panicked |-> TRUE, elements |-> <<>>]
        ELSE [panicked |-> FALSE,
              elements |-> st.components \o st.hooks \o st.classes \o st.functions]

-----------------------------------------------------------------------------
(* analysis/parser.rs : the extraction of a Rust and of a Python text.     *)

\* str::strip_suffix(t).unwrap() on a text known to end with t
StripSuffix(s, t) == Sub(s, 1, Len(s) - Len(t))

\* the indices at which a word of s starts: no white space there, and white
\* space or nothing before
WordStarts(s) ==
    {i \in 1..Len(s) : /\ ~IsSpace(SubSeq(s, i, i))
                       /\ (i = 1 \/ IsSpace(SubSeq(s, i - 1, i - 1)))}

\* the first index from i on that holds white space, or the end
SpaceFrom(s, i) ==
    MinOf({j \in i..(Len(s) + 1) : j = Len(s) + 1 \/ IsSpace(SubSeq(s, j, j))})

\* str::split_whitespace collected
SplitWhitespace(s) ==
    LET q == SeqOfSet(WordStarts(s))
    IN  [k \in 1..Len(q) |-> Sub(s, q[k], SpaceFrom(s, q[k]) - 1)]

\* parser.rs 32-65 : what a line adds to the modules, structs and functions
RustLine(l, k, st) ==
    IF StartsWith(l, "mod ") /\ EndsWith(l, ";")
    THEN [st EXCEPT !.modules =
             Append(@, Element(StripSuffix(StripPrefix(l, "mod "), ";"), "module",
                               k, <<>>))]
    ELSE IF StartsWith(l, "struct ") /\ Contains(l, "{")
    THEN [st EXCEPT !.structs =
             Append(@, Element(SplitWhitespace(StripPrefix(l, "struct "))[1], "struct",
                               k, <<>>))]
    ELSE IF StartsWith(l, "fn ")
    THEN [st EXCEPT !.functions =
             Append(@, Element(Trim(FirstOf(StripPrefix(l, "fn "), "(")), "function",
                               k, <<>>))]
    ELSE st

RECURSIVE RustLoop(_, _, _)
\* parser.rs 32 : for (line_idx, line) in content.lines().enumerate()
RustLoop(lines, k, st) ==
    IF k > Len(lines) THEN st
    ELSE RustLoop(lines, k + 1, RustLine(Trim(lines[k]), k, st))

\* the lists of a run in the order they are combined
Combined(st, fields) ==
    IF fields = <<>> THEN <<>>
    ELSE IF Len(fields) = 1 THEN st[fields[1]]
    ELSE IF Len(fields) = 2 THEN st[fields[1]] \o st[fields[2]]
    ELSE st[fields[1]] \o st[fields[2]] \o st[fields[3]]

\* parser.rs 26-77 : Ok(FileStructure) with the modules, structs and functions
analyze_rust_file(text) ==
    [panicked |-> FALSE, is_drupal |-> FALSE,
     elements |-> Combined(RustLoop(Lines(text), 1,
                                    [modules |-> <<>>, structs |-> <<>>,
                                     functions |-> <<>>]),
                           <<"modules", "structs", "functions">>)]

\* parser.rs 87-110 : what a line adds to the classes and functions
PythonLine(l, k, st) ==
    IF StartsWith(l, "class ")
    THEN [st EXCEPT !.classes =
             Append(@, Element(Trim(FirstOf(FirstOf(StripPrefix(l, "class "), "("), ":")),
                               "class", k, <<>>))]
    ELSE IF StartsWith(l, "def ")
    THEN [st EXCEPT !.functions =
             Append(@, Element(Trim(FirstOf(StripPrefix(l, "def "), "(")), "function",
                               k, <<>>))]
    ELSE st

RECURSIVE PythonLoop(_, _, _)
\* parser.rs 84 : for (line_idx, line) in content.lines().enumerate()
PythonLoop(lines, k, st) ==
    IF k > Len(lines) THEN st
    ELSE PythonLoop(lines, k + 1, PythonLine(Trim(lines[k]), k, st))

\* parser.rs 79-121 : Ok(FileStructure) with the classes and functions
analyze_python_file(text) ==
    [panicked |-> FALSE, is_drupal |-> FALSE,
     elements |-> Combined(PythonLoop(Lines(text), 1,
                                      [classes |-> <<>>, functions |-> <<>>]),
                           <<"classes", "functions">>)]

-----------------------------------------------------------------------------
(* analysis/parser.rs : the extraction of a PHP text.  Its elements carry *)
(* a description and a metadata record.                                    *)

\* Option::None and Option::Some
None == [some |-> FALSE]
SomeOf(v) == [some |-> TRUE, value |-> v]

\* ElementMetadata (parser.rs 720-729); service_tags is empty wherever it is built
Metadata(is_plugin, plugin_type, is_service, is_hook, hook_name, annotations, namespace) ==
    [some |-> TRUE, is_plugin |-> is_plugin, plugin_type |-> plugin_type,
     is_service |-> is_service, service_tags |-> <<>>, is_hook |-> is_hook,
     hook_name |-> hook_name, annotations |-> annotations, namespace |-> namespace]

\* CodeElement (parser.rs 711-717)
CodeElement(name, kind, line, description, metadata) ==
    [name |-> name, kind |-> kind, line |-> line, description |-> description,
     metadata |-> metadata]

\* parser.rs 588 : a line of the comment without its "/**" and "*" openers
DocLine(l) == Trim(TrimStartMatches(TrimStartMatches(Trim(l), "/**"), "*"))

RECURSIVE DescriptionFrom(_, _)
\* parser.rs 587-597 : the lines up to the first that starts with "@", each
\* followed by a blank
DescriptionFrom(ls, k) ==
    IF k > Len(ls) THEN ""
    ELSE IF StartsWith(DocLine(ls[k]), "@") THEN ""
    ELSE IF DocLine(ls[k]) = "" THEN DescriptionFrom(ls, k + 1)
    ELSE DocLine(ls[k]) \o " " \o DescriptionFrom(ls, k + 1)

\* CodeParser::extract_doc_comment_description
extract_doc_comment_description(doc_comment) ==
    IF doc_comment = "" THEN None
    ELSE IF Trim(DescriptionFrom(Lines(doc_comment), 1)) = "" THEN None
    ELSE SomeOf(Trim(DescriptionFrom(Lines(doc_comment), 1)))

\* the capture of namespace\s+([^;]+); for the occurrence of "namespace" at i
NamespaceAt(s, i) ==
    LET p == i + 9
        j == SkipSpace(s, p)
        e == FindFrom(s, ";", p)
    IN  IF j = p \/ e = 0 THEN None
        ELSE IF e > j THEN SomeOf(Sub(s, j, e - 1))
        ELSE IF j - p >= 2 THEN SomeOf(Sub(s, j - 1, j - 1))
        ELSE None

\* parser.rs 339-344 : namespace_regex.captures(content), the leftmost match
NamespaceOf(s) ==
    LET h == {i \in Hits(s, "namespace") : NamespaceAt(s, i).some}
    IN  IF h = {} THEN None ELSE NamespaceAt(s, MinOf(h))

\* the index after the token t when it stands at i, 0 when it does not
After(s, i, t) == IF i > 0 /\ Sub(s, i, i + Len(t) - 1) = t THEN i + Len(t) ELSE 0

\* the index after one of the quotes when one stands at i, 0 when none does
AfterQuote(s, i) == IF i > 0 /\ Sub(s, i, i) \in {"\"", "'"} THEN i + 1 ELSE 0

\* the first index from i on that holds a quote, 0 for none
QuoteFrom(s, i) ==
    LET h == {j \in i..Len(s) : SubSeq(s, j, j) \in {"\"", "'"}}
    IN  IF h = {} THEN 0 ELSE MinOf(h)

\* the index after the white space, if any, from i on; 0 stays 0
Spaces(s, i) == IF i = 0 THEN 0 ELSE SkipSpace(s, i)

\* the capture of @Plugin\s*\(\s*id\s*=\s*["']([^"']+)["'] for the occurrence of
\* "@Plugin" at i
PluginIdAt(s, i) ==
    LET q == AfterQuote(s, Spaces(s, After(s, Spaces(s, After(s, Spaces(s,
                 After(s, Spaces(s, i + 7), "(")), "id")), "=")))
    IN  IF q = 0 \/ QuoteFrom(s, q) <= q THEN None
        ELSE SomeOf(Sub(s, q, QuoteFrom(s, q) - 1))

\* parser.rs 431-432 : plugin_regex.captures(a), the leftmost match
PluginIdOf(a) ==
    LET h == {i \in Hits(a, "@Plugin") : PluginIdAt(a, i).some}
    IN  IF h = {} THEN None ELSE PluginIdAt(a, MinOf(h))

\* parser.rs 427-436 : the id of the first annotation that holds "@Plugin"
PluginType(annotations) ==
    LET h == {i \in 1..Len(annotations) : Contains(annotations[i], "@Plugin")}
    IN  IF h = {} THEN None ELSE PluginIdOf(annotations[MinOf(h)])

\* parser.rs 446-450 : the line extends one of the plugin base classes
ExtendsPluginBase(l) ==
    Contains(l, "extends")
    /\ ContainsAny(l, {"PluginBase", "BlockBase", "FieldItemBase", "ConfigEntityBase"})

\* parser.rs 458-466
BasePluginType(l) ==
    IF Contains(l, "BlockBase") THEN "Block"
    ELSE IF Contains(l, "FieldItemBase") THEN "Field"
    ELSE IF Contains(l, "ConfigEntityBase") THEN "ConfigEntity"
    ELSE "Generic"

\* parser.rs 444 : for i in line_idx..min(line_idx + 5, lines.len()), where
\* line_idx is the 1-based number of the class line and i a 0-based index:
\* the lines after the class line, five at most; the first that extends a
\* plugin base class, 0 for none
BaseAhead(lines, line_idx) ==
    LET h == {i \in (line_idx + 1)..Min(line_idx + 5, Len(lines)) :
                 ExtendsPluginBase(Trim(lines[i]))}
    IN  IF h = {} THEN 0 ELSE MinOf(h)

\* Option<String>::map_or(false, |ns| ns.contains(t))
NamespaceHolds(namespace, t) == namespace.some /\ Contains(namespace.value, t)

\* parser.rs 426, 439 : the tests on the annotations and on the comment
IsPlugin(annotations) == \E i \in 1..Len(annotations) : Contains(annotations[i], "@Plugin")
IsService(doc_comment) == Contains(doc_comment, "@Service") \/ Contains(doc_comment, "service")

\* parser.rs 484-492 : the kind of a class that extends no plugin base class
ClassKind(doc_comment, annotations, namespace) ==
    IF IsPlugin(annotations) \/ NamespaceHolds(namespace, "Plugin") THEN "drupal_plugin"
    ELSE IF IsService(doc_comment) THEN "drupal_service"
    ELSE IF NamespaceHolds(namespace, "Drupal") THEN "drupal_class"
    ELSE "class"

\* CodeParser::extract_class_definition (always Some)
extract_class_definition(line, line_idx, lines, doc_comment, annotations, namespace) ==
    IF BaseAhead(lines, line_idx) # 0
    THEN CodeElement(ClassName(line), "drupal_plugin", line_idx,
                     extract_doc_comment_description(doc_comment),
                     Metadata(TRUE,
                              SomeOf(BasePluginType(Trim(lines[BaseAhead(lines, line_idx)]))),
                              IsService(doc_comment), FALSE, None, annotations, namespace))
    ELSE CodeElement(ClassName(line), ClassKind(doc_comment, annotations, namespace),
                     line_idx, extract_doc_comment_description(doc_comment),
                     Metadata(IsPlugin(annotations) \/ NamespaceHolds(namespace, "Plugin"),
                              PluginType(annotations), IsService(doc_comment), FALSE,
                              None, annotations, namespace))

\* an annotation names an implemented hook
IsImplements(a) == Contains(a, "@Implements") \/ Contains(a, "@implements")

\* parser.rs 523 : some annotation holds "@Implements" or "@implements"
AnyImplements(annotations) == \E i \in 1..Len(annotations) : IsImplements(annotations[i])

\* parser.rs 529-534 : the hook a function name of the form module_hook_name names
HookOfName(name) ==
    LET parts == Split(name, "_")
        RECURSIVE JoinFrom(_)
        JoinFrom(k) == IF k = Len(parts) THEN parts[k]
                       ELSE parts[k] \o "_" \o JoinFrom(k + 1)
    IN  IF Len(parts) >= 3 /\ parts[2] = "hook" THEN SomeOf("hook_" \o JoinFrom(3))
        ELSE None

\* parser.rs 537-542 : the hook the first "@Implements" annotation names
HookOfAnnotations(annotations) ==
    LET h == {i \in 1..Len(annotations) : IsImplements(annotations[i])}
    IN  IF h = {} \/ AnnotationHooks(annotations[MinOf(h)]) = <<>> THEN None
        ELSE SomeOf(AnnotationHooks(annotations[MinOf(h)])[1])

\* parser.rs 526-546
HookName(name, annotations) ==
    IF Contains(name, "_hook_") THEN HookOfName(name)
    ELSE IF AnyImplements(annotations) THEN HookOfAnnotations(annotations)
    ELSE None

\* parser.rs 549-555
FunctionKind(name, annotations, is_drupal_file) ==
    IF Contains(name, "_hook_") \/ AnyImplements(annotations) THEN "drupal_hook"
    ELSE IF is_drupal_file THEN "drupal_function"
    ELSE "function"

\* the name of a function line: up to the first "("
FunctionName(line) == Trim(FirstOf(StripPrefix(line, "function "), "("))

\* CodeParser::extract_function_definition (always Some)
extract_function_definition(line, line_idx, doc_comment, annotations, namespace, is_drupal_file) ==
    CodeElement(FunctionName(line),
                FunctionKind(FunctionName(line), annotations, is_drupal_file),
                line_idx, extract_doc_comment_description(doc_comment),
                Metadata(FALSE, None, FALSE,
                         Contains(FunctionName(line), "_hook_") \/ AnyImplements(annotations),
                         HookName(FunctionName(line), annotations), annotations, namespace))

\* parser.rs 379-380 : the name of an interface line
InterfaceName(line) == Trim(FirstOf(FirstOf(StripPrefix(line, "interface "), " "), "{"))

\* parser.rs 333-336
IsDrupalContent(text) ==
    \/ Contains(text, "Drupal\\")
    \/ Contains(text, "function") /\ Contains(text, "_hook_")
    \/ Contains(text, "@Implements") \/ Contains(text, "@implements")
    \/ Contains(text, "\\Plugin\\") \/ Contains(text, "services.yml")

\* parser.rs 353-404 : the chain of tests on line k, trimmed
PhpStep(line, k, lines, namespace, is_drupal_file, st) ==
    IF StartsWith(line, "/**")
    THEN [st EXCEPT !.in_doc_comment = TRUE, !.doc_comment_buffer = line,
                    !.annotation_buffer = <<>>]
    ELSE IF st.in_doc_comment /\ Contains(line, "*/")
    THEN [st EXCEPT !.in_doc_comment = FALSE, !.doc_comment_buffer = @ \o line]
    ELSE IF st.in_doc_comment
    THEN [st EXCEPT !.doc_comment_buffer = @ \o line,
                    !.annotation_buffer = IF StartsWith(line, "@") THEN Append(@, line)
                                          ELSE @]
    ELSE IF StartsWith(line, "class ")
    THEN [st EXCEPT !.elements =
             Append(@, extract_class_definition(line, k, lines, st.doc_comment_buffer,
                                                st.annotation_buffer, namespace))]
    ELSE IF StartsWith(line, "interface ")
    THEN [st EXCEPT !.elements =
             Append(@, CodeElement(InterfaceName(line), "interface", k,
                                   extract_doc_comment_description(st.doc_comment_buffer),
                                   Metadata(FALSE, None, FALSE, FALSE, None,
                                            st.annotation_buffer, namespace)))]
    ELSE IF StartsWith(line, "function ")
    THEN [st EXCEPT !.elements =
             Append(@, extract_function_definition(line, k, st.doc_comment_buffer,
                                                   st.annotation_buffer, namespace,
                                                   is_drupal_file))]
    ELSE st

\* parser.rs 407-410 : outside a comment, and not on its opening line, the buffers
\* are cleared
PhpReset(line, st) ==
    IF ~st.in_doc_comment /\ ~StartsWith(line, "/**")
    THEN [st EXCEPT !.doc_comment_buffer = "", !.annotation_buffer = <<>>]
    ELSE st

RECURSIVE PhpLoop(_, _, _, _, _)
\* parser.rs 349 : for line_idx in 0..lines.len()
PhpLoop(lines, k, namespace, is_drupal_file, st) ==
    IF k > Len(lines) THEN st
    ELSE PhpLoop(lines, k + 1, namespace, is_drupal_file,
                 PhpReset(Trim(lines[k]),
                          PhpStep(Trim(lines[k]), k, lines, namespace, is_drupal_file,
                                  st)))

\* parser.rs 324-417 : Ok(FileStructure)
analyze_php_file(text) ==
    [panicked |-> FALSE, is_drupal |-> IsDrupalContent(text),
     elements |-> PhpLoop(Lines(text), 1, NamespaceOf(text), IsDrupalContent(text),
                          [elements |-> <<>>, in_doc_comment |-> FALSE,
                           doc_comment_buffer |-> "", annotation_buffer |-> <<>>]).elements]

-----------------------------------------------------------------------------
(* analysis/parser.rs : the extraction of a Go text.                       *)

\* parser.rs 627-629, 641-643 : the name of a "type" line of three words or more
TypeName(line) ==
    IF Len(SplitWhitespace(line)) >= 3 /\ SplitWhitespace(line)[1] = "type"
    THEN SomeOf(SplitWhitespace(line)[2])
    ELSE None

\* the name with the receiver of a method skipped
FuncName_SkipReceiver(line) ==
    IF StartsWith(line, "func (")
    THEN Trim(FirstOf(From(line, Len(FirstOf(line, ")")) + 2), "("))
    ELSE Trim(TrimStartMatches(FirstOf(line, "("), "func "))

\* parser.rs 655-657 : the text before the first "(", without "func "
FuncName(line) == Trim(TrimStartMatches(FirstOf(line, "("), "func "))

\* parser.rs 617-680 : what a line adds to the structs, interfaces and functions
GoLine(line, k, st) ==
    IF StartsWith(line, "package ") /\ st.package_name = ""
    THEN [st EXCEPT !.package_name = Trim(StripPrefix(line, "package "))]
    ELSE IF StartsWith(line, "type ") /\ Contains(line, "struct")
    THEN IF TypeName(line).some
         THEN [st EXCEPT !.structs =
                  Append(@, CodeElement(TypeName(line).value, "struct", k, None, None))]
         ELSE st
    ELSE IF StartsWith(line, "type ") /\ Contains(line, "interface")
    THEN IF TypeName(line).some
         THEN [st EXCEPT !.interfaces =
                  Append(@, CodeElement(TypeName(line).value, "interface", k, None, None))]
         ELSE st
    ELSE IF StartsWith(line, "func ")
    THEN IF FuncName(line) # ""
         THEN [st EXCEPT !.functions =
                  Append(@, CodeElement(FuncName(line),
                                        IF Len(Split(line, "(")) > 1 THEN "method"
                                        ELSE "function",
                                        k, None,
                                        Metadata(FALSE, None, FALSE, FALSE, None, <<>>,
                                                 SomeOf(st.package_name))))]
         ELSE st
    ELSE st

RECURSIVE GoLoop(_, _, _)
\* parser.rs 616 : for line_idx in 0..lines.len()
GoLoop(lines, k, st) ==
    IF k > Len(lines) THEN st
    ELSE GoLoop(lines, k + 1, GoLine(Trim(lines[k]), k, st))

\* parser.rs 607-693 : Ok(FileStructure) with the structs, interfaces and functions
analyze_go_file(text) ==
    [panicked |-> FALSE, is_drupal |-> FALSE,
     elements |-> Combined(GoLoop(Lines(text), 1,
                                  [structs |-> <<>>, interfaces |-> <<>>,
                                   functions |-> <<>>, package_name |-> ""]),
                           <<"structs", "interfaces", "functions">>)]

-----------------------------------------------------------------------------
(* analysis/parser.rs : the choice of the routine by the file extension.   *)

\* parser.rs 695-701 : Ok(FileStructure) without elements
analyze_generic_file(text) == [panicked |-> FALSE, is_drupal |-> FALSE, elements |-> <<>>]

\* the FileStructure of the JavaScript routine (parser.rs 318-321)
JsStructure(r) == [panicked |-> r.panicked, is_drupal |-> FALSE, elements |-> r.elements]

\* parser.rs 14-21 : CodeParser::analyze_file_structure on the text read
analyze_file_structure(ext, text) ==
    CASE ext = "rs" -> analyze_rust_file(text)
      [] ext = "py" -> analyze_python_file(text)
      [] ext \in {"js", "ts", "jsx", "tsx"} -> JsStructure(analyze_javascript_file(text))
      [] ext = "php" -> analyze_php_file(text)
      [] ext = "go" -> analyze_go_file(text)
      [] OTHER -> analyze_generic_file(text)

-----------------------------------------------------------------------------
(* The values a component's variables hold while another component runs.   *)

CIdle == /\ pc = "idle" /\ root = "" /\ tree = {} /\ directories = <<>>
         /\ files_by_type = <<>> /\ features = ProjectFeaturesDefault
         /\ project_type = "unset" /\ modules = <<>>
         /\ specific_info = [variant |-> "unset", info |-> NoInfo]

RIdle == /\ content = "" /\ keywords = <<>> /\ score = 0
         /\ prev = [op |-> "idle", score |-> 0, content |-> "", keywords |-> <<>>,
                    added |-> 0]

NoQuery == [op |-> "none", keywords |-> <<>>, pattern |-> ""]

SIdle == /\ spc = "idle" /\ sfiles = <<>> /\ squery = NoQuery /\ sresult = <<>>
         /\ sread = {} /\ sscored = {}

PIdle == /\ ppc = "idle" /\ pext = "" /\ plines = <<>> /\ elements = <<>>
         /\ is_drupal = FALSE

-----------------------------------------------------------------------------
(* Specification Spec: one run of analyze_project_structure on a tree.     *)

Init ==
    /\ pc = "start"
    /\ root \in RootPool
    /\ tree \in Trees
    /\ directories = <<>>
    /\ files_by_type = <<>>
    /\ features = ProjectFeaturesDefault
    /\ project_type = "unset"
    /\ modules = <<>>
    /\ specific_info = [variant |-> "unset", info |-> NoInfo]
    /\ RIdle /\ SIdle /\ PIdle

\* structure.rs 17 : the call of scan_project_features
ScanProjectFeatures ==
    /\ pc = "start"
    /\ \E st \in {scan_project_features(root, tree)} :
          /\ directories' = st.directories
          /\ files_by_type' = st.files_by_type
          /\ features' = st.features
    /\ pc' = "scanned"
    /\ UNCHANGED <<root, tree, project_type, modules, specific_info, rvars, svars, pvars>>

\* structure.rs 20 : the call of determine_project_type
DetermineProjectType ==
    /\ pc = "scanned"
    /\ \E r \in {determine_project_type(root, tree, features, files_by_type)} :
          /\ project_type' = r.type
          /\ modules' = r.modules
    /\ pc' = "typed"
    /\ UNCHANGED <<root, tree, directories, files_by_type, features, specific_info,
                   rvars, svars, pvars>>

\* structure.rs 23-48 : the specific info, and the result
GatherSpecificInfo ==
    /\ pc = "typed"
    /\ specific_info' = GatherSpecific(project_type, root, tree, files_by_type)
    /\ pc' = "done"
    /\ UNCHANGED <<root, tree, directories, files_by_type, features, project_type,
                   modules, rvars, svars, pvars>>

Next == ScanProjectFeatures \/ DetermineProjectType \/ GatherSpecificInfo

Spec == Init /\ [][Next]_vars

-----------------------------------------------------------------------------
(* Specification SpecRel: calculate_relevance on a content and a keyword   *)
(* list, then on the same inputs with a keyword or an occurrence more.     *)

RustFile == "pub fn rust_module() {}"
DjangoFile == "import django\ndef view():"
PlainPythonFile == "import os\ndef main():\n  0"
ConstFile == "const module = module"
InfoFile == "name: Info\ntype: module\n"

ContentPool == {RustFile, DjangoFile, PlainPythonFile, ConstFile, InfoFile, ""}
KeywordPool == {"rust", "Module", "python", "django", "function"}

InitRel ==
    /\ content \in ContentPool
    /\ keywords \in {<<>>} \cup {<<k>> : k \in KeywordPool}
    /\ score = 0
    /\ prev = [op |-> "input", score |-> 0, content |-> "", keywords |-> <<>>,
               added |-> 0]
    /\ CIdle /\ SIdle /\ PIdle

\* what the last step leaves behind: the inputs and the score before it
Before(op, added) ==
    [op |-> op, score |-> score, content |-> content, keywords |-> keywords,
     added |-> added]

\* search.rs 40 : the score of the inputs
CalculateRelevance ==
    /\ prev.op = "input"
    /\ score' = calculate_relevance(content, keywords)
    /\ prev' = Before("scored", 0)
    /\ UNCHANGED <<content, keywords, cvars, svars, pvars>>

\* the same content scored for the list with one keyword more
AppendKeyword ==
    /\ prev.op # "input"
    /\ Len(keywords) < MaxKw
    /\ \E k \in KeywordPool :
          /\ keywords' = Append(keywords, k)
          /\ score' = calculate_relevance(content, keywords')
    /\ prev' = Before("keyword", prev.added)
    /\ UNCHANGED <<content, cvars, svars, pvars>>

\* the same list scored for the content with one more occurrence of a listed
\* keyword, set off by a blank
AppendOccurrence ==
    /\ prev.op # "input"
    /\ prev.added < MaxFrags
    /\ \E i \in 1..Len(keywords) :
          /\ content' = content \o " " \o keywords[i]
          /\ score' = calculate_relevance(content', keywords)
    /\ prev' = Before("occurrence", prev.added + 1)
    /\ UNCHANGED <<keywords, cvars, svars, pvars>>

NextRel == CalculateRelevance \/ AppendKeyword \/ AppendOccurrence

SpecRel == InitRel /\ [][NextRel]_vars

-----------------------------------------------------------------------------
(* Specification SpecScore: one call of calculate_relevance on a content   *)
(* and a keyword list, for what the score is made of.                      *)

StructFile == "struct Point {}\nimpl Point { fn area() {} }"
DrupalInfoFile == "name: Bar\ntype: module\npackage: Drupal\n"

ScoreContentPool == ContentPool \cup {StructFile, DrupalInfoFile}
ScoreKeywordPool == KeywordPool \cup {"struct", "impl"}

RECURSIVE KeywordLists(_)
\* the keyword lists of at most n keywords
KeywordLists(n) ==
    IF n = 0 THEN {<<>>}
    ELSE KeywordLists(n - 1)
         \cup {Append(q, k) : q \in KeywordLists(n - 1), k \in ScoreKeywordPool}

InitScore ==
    /\ content \in ScoreContentPool
    /\ keywords \in KeywordLists(MaxKw)
    /\ score = 0
    /\ prev = [op |-> "input", score |-> 0, content |-> "", keywords |-> <<>>,
               added |-> 0]
    /\ CIdle /\ SIdle /\ PIdle

\* search.rs 40 : the score of the inputs
ScoreContent ==
    /\ prev.op = "input"
    /\ score' = calculate_relevance(content, keywords)
    /\ prev' = Before("scored", 0)
    /\ UNCHANGED <<content, keywords, cvars, svars, pvars>>

NextScore == ScoreContent

SpecScore == InitScore /\ [][NextScore]_vars

-----------------------------------------------------------------------------
(* Specification SpecSearch: one call of find_relevant_files or of         *)
(* search_in_files over the files of a tree, listed as the walk finds them. *)

RECURSIVE FileLists(_)
\* the lists of at most n distinct files of SearchPool
FileLists(n) ==
    IF n = 0 THEN {<<>>}
    ELSE LET s == FileLists(n - 1)
         IN  s \cup {Append(q, i) : q \in {r \in s : Len(r) = n - 1},
                                     i \in 1..Len(SearchPool)}

DistinctLists(n) == {q \in FileLists(n) : Cardinality(Range(q)) = Len(q)}

QueryPool == {<<>>, <<"django">>, <<"python", "django">>, <<"Module">>}

InitSearch ==
    /\ spc = "ready"
    /\ sfiles \in DistinctLists(MaxSearchFiles)
    /\ squery = NoQuery
    /\ sresult = [ok |-> TRUE, value |-> <<>>]
    /\ sread = {}
    /\ sscored = {}
    /\ CIdle /\ RIdle /\ PIdle

\* search.rs 13-56
FindRelevantFiles ==
    /\ spc = "ready"
    /\ \E ks \in QueryPool :
          \E st \in {find_relevant_files(sfiles, ks)} :
             /\ squery' = [op |-> "find_relevant_files", keywords |-> ks, pattern |-> ""]
             /\ sresult' = ResultOf(st)
             /\ sread' = st.read
             /\ sscored' = st.scored
    /\ spc' = "returned"
    /\ UNCHANGED <<sfiles, cvars, rvars, pvars>>

\* search.rs 58-93
SearchInFiles ==
    /\ spc = "ready"
    /\ \E p \in PatternPool :
          \E st \in {search_in_files(sfiles, p)} :
             /\ squery' = [op |-> "search_in_files", keywords |-> <<>>, pattern |-> p]
             /\ sresult' = ResultOf(st)
             /\ sread' = st.read
             /\ sscored' = st.scored
    /\ spc' = "returned"
    /\ UNCHANGED <<sfiles, cvars, rvars, pvars>>

NextSearch == FindRelevantFiles \/ SearchInFiles

SpecSearch == InitSearch /\ [][NextSearch]_vars

-----------------------------------------------------------------------------
(* Specification SpecParse: one extraction run on the text of a file, the  *)
(* routine chosen by the extension of the file.                            *)

LinePool == {"import React from 'react';",
             "class Foo extends React.Component {",
             "  class Foo {",
             "@Component({})",
             "export class Baz extends React.Component {",
             "function useFoo() {",
             "  return (1);"}

RECURSIVE LineLists(_)
\* the texts of at most n lines of LinePool
LineLists(n) ==
    IF n = 0 THEN {<<>>}
    ELSE LET s == LineLists(n - 1)
         IN  s \cup {Append(q, l) : q \in {r \in s : Len(r) = n - 1}, l \in LinePool}

\* lines of a Rust text: declarations with and without their delimiter
RustLinePool == {"mod model;", "mod model", "struct Point {", "struct Point",
                 "fn area(p: Point) {", "fn area", "  pub fn main() {}"}

\* lines of a Python text
PythonLinePool == {"class View(Base):", "class View:", "def render(self):",
                   "def render", "  def render:", "x = 1"}

\* lines of a Go text
GoLinePool == {"package main", "type Shape struct {", "type Area interface {",
               "type Shape", "func Area(s Shape) int {", "func (s Shape) Area() int {",
               "func Area"}

\* pieces of a PHP text: documentation comments and declarations
PhpPiecePool == {<<"/**", " * Shows help.", " * @Implements hook_help", " */">>,
                 <<"/**", " * Says hello.", "@Implements hook_help", " */">>,
                 <<"/** One line. */">>,
                 <<"function bar_help() {}">>,
                 <<"function bar_hook_cron() {}">>,
                 <<"class Hello extends BlockBase {">>,
                 <<"interface Greeter {">>,
                 <<"namespace Drupal\\hello\\Plugin\\Block;">>,
                 <<"$x = 1;">>}

RECURSIVE ListsOver(_, _)
\* the concatenations of at most n members of a pool of line lists
ListsOver(pool, n) ==
    IF n = 0 THEN {<<>>}
    ELSE ListsOver(pool, n - 1) \cup {q \o l : q \in ListsOver(pool, n - 1), l \in pool}

\* the one-line lists of a pool of lines
Single(pool) == {<<l>> : l \in pool}

\* the extensions of the files analysed
ParseExtensions == {"rs", "py", "js", "php", "go", "txt"}

\* the texts of a file of extension ext: at most MaxLines lines, or pieces
TextsOf(ext) ==
    CASE ext = "rs" -> ListsOver(Single(RustLinePool), MaxLines)
      [] ext = "py" -> ListsOver(Single(PythonLinePool), MaxLines)
      [] ext = "js" -> LineLists(MaxLines)
      [] ext = "php" -> ListsOver(PhpPiecePool, MaxLines)
      [] ext = "go" -> ListsOver(Single(GoLinePool), MaxLines)
      [] OTHER -> ListsOver({<<"fn main() {">>}, MaxLines)

InitParse ==
    /\ ppc = "ready"
    /\ pext \in ParseExtensions
    /\ plines \in TextsOf(pext)
    /\ elements = <<>>
    /\ is_drupal = FALSE
    /\ CIdle /\ RIdle /\ SIdle

\* analyze_file_structure returns r, an Ok(FileStructure)
Return(r) ==
    /\ ~r.panicked
    /\ elements' = r.elements
    /\ is_drupal' = r.is_drupal
    /\ ppc' = "returned"
    /\ UNCHANGED <<pext, plines, cvars, rvars, svars>>

\* parser.rs 26-77
AnalyzeRustFile ==
    /\ ppc = "ready" /\ pext = "rs"
    /\ \E r \in {analyze_file_structure(pext, JoinLines(plines))} : Return(r)

\* parser.rs 79-121
AnalyzePythonFile ==
    /\ ppc = "ready" /\ pext = "py"
    /\ \E r \in {analyze_file_structure(pext, JoinLines(plines))} : Return(r)

\* parser.rs 123-322 : the run that returns
AnalyzeJavascriptFile ==
    /\ ppc = "ready" /\ pext = "js"
    /\ \E r \in {analyze_file_structure(pext, JoinLines(plines))} : Return(r)

\* parser.rs 205 : the run that panics
AnalyzeJavascriptFilePanics ==
    /\ ppc = "ready" /\ pext = "js"
    /\ analyze_file_structure(pext, JoinLines(plines)).panicked
    /\ ppc' = "panicked"
    /\ UNCHANGED <<pext, plines, elements, is_drupal, cvars, rvars, svars>>

\* parser.rs 324-417
AnalyzePhpFile ==
    /\ ppc = "ready" /\ pext = "php"
    /\ \E r \in {analyze_file_structure(pext, JoinLines(plines))} : Return(r)

\* parser.rs 607-693
AnalyzeGoFile ==
    /\ ppc = "ready" /\ pext = "go"
    /\ \E r \in {analyze_file_structure(pext, JoinLines(plines))} : Return(r)

\* parser.rs 695-701
AnalyzeGenericFile ==
    /\ ppc = "ready" /\ pext = "txt"
    /\ \E r \in {analyze_file_structure(pext, JoinLines(plines))} : Return(r)

NextParse ==
    \/ AnalyzeRustFile \/ AnalyzePythonFile
    \/ AnalyzeJavascriptFile \/ AnalyzeJavascriptFilePanics
    \/ AnalyzePhpFile \/ AnalyzeGoFile \/ AnalyzeGenericFile

SpecParse == InitParse /\ [][NextParse]_vars

-----------------------------------------------------------------------------
(* What the claims about the classifier say of a tree.                     *)

\* the pool index of a path
Idx(p) == CHOOSE i \in 1..Len(FilePool) : FilePool[i].path = p

PoolNames == [i \in 1..Len(FilePool) |-> FileName(FilePool[i].path)]
PoolExts == [i \in 1..Len(FilePool) |-> Extension(FilePool[i].path)]

\* the tree holds a file of that name, at any depth
HoldsNamed(n) == \E i \in tree : PoolNames[i] = n

\* a file the walk reaches: at most MaxDepth levels down, not of a noise extension
Reached(i) == i \in tree /\ Len(PoolAncestors[i]) + 1 <= MaxDepth
              /\ PoolExts[i] \notin IgnoreExtensions
ReachedNamed(n) == \E i \in tree : Reached(i) /\ PoolNames[i] = n
ReachedExt(e) == \E i \in tree : Reached(i) /\ PoolExts[i] = e

\* the name of a directory is in the ignore set, or starts with a dot
IgnoredName(n) == n \in IgnoreDirs \/ StartsWith(n, ".")

\* the relative path lies beneath a directory of the ignore set
BeneathIgnored(rel) ==
    LET c == Split(rel, "/") IN \E k \in 1..(Len(c) - 1) : IgnoredName(c[k])

IsDrupalType(ty) == ty \in {"Drupal", "DrupalModule"}

\* C1 as stated: every tree that holds a Cargo.toml is classified Rust, whatever
\* Drupal markers it holds.
C1_RustWheneverManifest ==
    (pc = "done" /\ HoldsNamed("Cargo.toml")) => project_type = "Rust"

\* C1, amended: a tree with a Cargo.toml within the MaxDepth levels of the walk is
\* classified Rust unless the Drupal rule, tried first, classifies it Drupal or
\* DrupalModule.
C1_RustUnlessDrupal ==
    (pc = "done" /\ ReachedNamed("Cargo.toml") /\ ~IsDrupalType(project_type))
        => project_type = "Rust"

\* a Rust result for a tree that holds a Drupal marker (a core directory)
C1_Witness ==
    /\ pc = "done" /\ ReachedNamed("Cargo.toml") /\ features.has_drupal_core
    /\ project_type = "Rust"

\* C2 as stated: after the scan, no bucket of files_by_type holds a file beneath a
\* directory of the ignore set.
C2_NoFileBeneathIgnoredDir ==
    pc # "start" =>
        \A e \in DOMAIN files_by_type :
            \A k \in 1..Len(files_by_type[e]) : ~BeneathIgnored(files_by_type[e][k])

ScenarioB == {Idx("web/modules/custom/foo/foo.info.yml"),
              Idx("web/modules/custom/foo/foo.module")}

HasModuleNamed(n) == \E k \in 1..Len(modules) : modules[k].name = n

\* C4 as stated: the tree of Scenario B gives a module foo, the type DrupalModule
\* and the hook list <<"hook_cron">>.
C4_ScenarioBAsStated ==
    (pc = "done" /\ root = "/srv/app" /\ tree = ScenarioB) =>
        /\ HasModuleNamed("foo")
        /\ project_type = "DrupalModule"
        /\ specific_info.variant = "Drupal"
        /\ specific_info.info.some
        /\ specific_info.info.hooks = <<"hook_cron">>

\* C4, amended: the tree of Scenario B gives the modules list <<foo>>; its root is
\* no module itself, so the type is Drupal and the specific info is None: no hook
\* list is gathered.
C4_ScenarioB ==
    (pc = "done" /\ root = "/srv/app" /\ tree = ScenarioB) =>
        /\ modules = <<[name |-> "foo", path |-> "/srv/app/web/modules/custom/foo"]>>
        /\ project_type = "Drupal"
        /\ specific_info.variant = "None"

C4_Witness ==
    /\ pc = "done" /\ root = "/srv/app" /\ tree = ScenarioB
    /\ features.has_drupal_modules_dir /\ features.has_info_yml
    /\ features.has_drupal_module_extension /\ HasModuleNamed("foo")

ScenarioA == {Idx("Cargo.toml"), Idx("src/main.rs")}

\* C9: the tree of Scenario A (Cargo.toml with name = "demo", and src/main.rs with
\* two struct declarations and one mod declaration) is classified Rust; and every
\* tree that holds the two, has no other .rs file and is not classified by the
\* Drupal rule is Rust with name demo, struct_count 2 and module_count 1.
C9_ScenarioA ==
    /\ (pc = "done" /\ tree = ScenarioA) => project_type = "Rust"
    /\ (/\ pc = "done" /\ ScenarioA \subseteq tree
        /\ FilesOfType(files_by_type, "rs") = <<"src/main.rs">>
        /\ ~IsDrupalType(project_type)) =>
           /\ project_type = "Rust"
           /\ specific_info.variant = "Rust"
           /\ specific_info.info.some
           /\ specific_info.info.name = "demo"
           /\ specific_info.info.struct_count = 2
           /\ specific_info.info.module_count = 1

\* the run on the tree of Scenario A, done
C9_Witness ==
    /\ pc = "done" /\ tree = ScenarioA /\ project_type = "Rust"
    /\ specific_info.info.name = "demo"
    /\ specific_info.info.struct_count = 2 /\ specific_info.info.module_count = 1

\* the rules of the fixed order, read off the files the walk reaches
RuleRust == ReachedNamed("Cargo.toml")
RuleAngular == ReachedNamed("angular.json") /\ ReachedNamed("package.json")
RuleReact ==
    /\ ReachedNamed("package.json")
    /\ \/ ReachedExt("jsx") \/ ReachedExt("tsx")
       \/ \E i \in tree : Reached(i) /\ PoolExts[i] = "js"
                          /\ Contains(FilePool[i].path, "react")
RulePython == \/ ReachedNamed("pyproject.toml") \/ ReachedNamed("requirements.txt")
              \/ ReachedNamed("setup.py")
RuleGo == ReachedNamed("go.mod") \/ ReachedExt("go")
RuleJavaScript == ReachedExt("js") \/ ReachedExt("ts")
RulePHP == ReachedExt("php")

RuleOrder == <<[type |-> "Rust", fires |-> RuleRust],
               [type |-> "Angular", fires |-> RuleAngular],
               [type |-> "React", fires |-> RuleReact],
               [type |-> "Python", fires |-> RulePython],
               [type |-> "Go", fires |-> RuleGo],
               [type |-> "JavaScript", fires |-> RuleJavaScript],
               [type |-> "PHP", fires |-> RulePHP],
               [type |-> "Generic", fires |-> TRUE]>>

\* C10: one ProjectType is assigned, and when it is not a Drupal type it is the
\* type of the first rule of the fixed order that matches.
C10_FirstMatchWins ==
    pc \in {"typed", "done"} =>
        /\ project_type \in ProjectTypes
        /\ ~IsDrupalType(project_type) =>
              \E k \in 1..Len(RuleOrder) :
                  /\ RuleOrder[k].type = project_type
                  /\ RuleOrder[k].fires
                  /\ \A j \in 1..(k - 1) : ~RuleOrder[j].fires

\* React chosen while the later Python rule matches too
C10_Witness ==
    /\ pc = "done" /\ project_type = "React" /\ RuleReact /\ RulePython

-----------------------------------------------------------------------------
(* What the claims about the relevance score say.                          *)

LastKeyword == keywords[Len(keywords)]

\* the keyword appended last occurs in the content, as the score counts it
LastKeywordOccurs == Contains(ToLower(content), ToLower(LastKeyword))

Signatures(c) == detect_language_signatures(ToLower(c))

\* C3 as stated: appending a keyword that occurs in the content never lowers the
\* score of that content.
C3_KeywordNeverLowers ==
    (prev.op = "keyword" /\ LastKeywordOccurs) => score >= prev.score

\* C3, amended: appending a keyword that occurs in the content never lowers the
\* score when detect_search_language names the same language for both lists.
C3_KeywordNeverLowersSameLanguage ==
    (/\ prev.op = "keyword" /\ LastKeywordOccurs
     /\ detect_search_language(keywords) = detect_search_language(prev.keywords))
        => score >= prev.score

\* an occurring keyword appended, the language kept, the score risen
C3_Witness ==
    /\ prev.op = "keyword" /\ LastKeywordOccurs
    /\ detect_search_language(keywords) = detect_search_language(prev.keywords)
    /\ Len(prev.keywords) > 0
    /\ score > prev.score

\* C5 as stated: the score is never negative, and a content with one more
\* occurrence of a listed keyword never scores lower.
C5_MonotoneInOccurrences ==
    /\ score >= 0
    /\ prev.op = "occurrence" => score >= prev.score

\* C5, amended: the score is never negative, and a content with one more
\* occurrence of a listed keyword never scores lower when the occurrence leaves
\* the language signatures of the content as they were.
C5_MonotoneSameSignatures ==
    /\ score >= 0
    /\ (prev.op = "occurrence" /\ Signatures(content) = Signatures(prev.content))
          => score >= prev.score

\* an occurrence appended, the signatures kept, the score risen
C5_Witness ==
    /\ prev.op = "occurrence" /\ Signatures(content) = Signatures(prev.content)
    /\ score > prev.score

\* no keyword of the list occurs in the content
KeywordFree(c, ks) == \A i \in 1..Len(ks) : ~Contains(ToLower(c), ToLower(ks[i]))

\* C7: with the keywords python and django, a content with the lines
\* "import django" and "def view():" scores above every keyword-free content of
\* its size, and its score is its keyword score plus the Python bonus 25, once.
C7_ScenarioC ==
    (/\ prev.op # "input" /\ keywords = <<"python", "django">>
     /\ Contains(content, "import django") /\ Contains(content, "def view():")) =>
        /\ \A c \in ContentPool :
              (KeywordFree(c, keywords) /\ Len(c) = Len(content))
                  => score > calculate_relevance(c, keywords)
        /\ score = KeywordScore(ToLower(content), keywords, Signatures(content),
                                Len(keywords)) + 25

\* the file of Scenario C scored 26, the keyword-free Python file of its size 25
C7_Witness ==
    /\ prev.op = "keyword" /\ keywords = <<"python", "django">>
    /\ content = DjangoFile /\ score = 26
    /\ KeywordFree(PlainPythonFile, keywords)
    /\ Len(PlainPythonFile) = Len(DjangoFile)
    /\ calculate_relevance(PlainPythonFile, keywords) = 25

-----------------------------------------------------------------------------
(* What the claims about the searches say.                                 *)

\* the files of the searched tree
Searched == {SearchPool[sfiles[k]] : k \in 1..Len(sfiles)}

\* the paths a result names: those of find_relevant_files, or the file_path of
\* each SearchResult
ResultPaths ==
    IF squery.op = "search_in_files"
    THEN {sresult.value[k].file_path : k \in 1..Len(sresult.value)}
    ELSE Range(sresult.value)

IsBinary(f) == Extension(f.path) \in binary_extensions
IsLarge(f) == f.len > SizeCeiling

\* C6: a file with a binary extension, or longer than the ceiling of 1 MiB, is
\* never read, never scored or matched, and never in the result of either search.
C6_BinaryOrLargeExcluded ==
    \A f \in Searched :
        (IsBinary(f) \/ IsLarge(f)) =>
            /\ f.path \notin sread
            /\ f.path \notin sscored
            /\ f.path \notin ResultPaths

\* a search that returned a file while the tree held a binary or large file whose
\* text holds what was searched for
C6_Witness ==
    /\ spc = "returned" /\ sresult.ok /\ sresult.value # <<>>
    /\ \E f \in Searched :
          /\ IsBinary(f) \/ IsLarge(f)
          /\ Contains(f.text, "django")
    /\ \/ squery.op = "find_relevant_files" /\ squery.keywords = <<"python", "django">>
       \/ squery.op = "search_in_files" /\ squery.pattern = "django"

-----------------------------------------------------------------------------
(* What the claims about the extraction say.                               *)

\* line i declares a class-based React component: "class Name extends
\* React.Component", after the indentation
DeclaresReactClass(i) ==
    /\ StartsWith(Trim(plines[i]), "class ")
    /\ Contains(plines[i], "extends React.Component")
    /\ ~Contains(plines[i], "@Component") /\ ~Contains(plines[i], "@Injectable")

ElementsAt(i) == {k \in 1..Len(elements) : elements[k].line = i}

-----------------------------------------------------------------------------
(* What the claims about module detection say of a tree.                   *)

\* the root holds both a core directory and a composer.json
SiteRoot == Exists(tree, "core") /\ Exists(tree, "composer.json")

\* C11 as stated: once the classifier has run, is_drupal_module of a root that
\* holds both a core directory and a composer.json is false, whatever module
\* indicators the root carries and whatever its path.
C11_SiteRootIsNoModule ==
    (pc \in {"typed", "done"} /\ SiteRoot) =>
        /\ ~is_drupal_module(root, tree, "")
        /\ project_type # "DrupalModule"

-----------------------------------------------------------------------------
(* What the claims about failures during a search say.                     *)

\* an entry that fails: in the walk, at the size metadata, or at the read
Faulty(f) == f.fault \in {"walk", "stat", "read"}

\* the searched list without its failing entries
WithoutFaulty == SelectSeq(sfiles, LAMBDA i : ~Faulty(SearchPool[i]))

\* the result of the call that was made, had it been made on the list fs
ResultOn(fs) ==
    IF squery.op = "find_relevant_files"
    THEN ResultOf(find_relevant_files(fs, squery.keywords))
    ELSE ResultOf(search_in_files(fs, squery.pattern))

\* the pattern of the call, if it has one, compiles
PatternCompiles == squery.op = "search_in_files" => RegexNew(squery.pattern).ok

\* C12 as stated: a call whose pattern compiles returns Ok, and its result is the
\* result over the entries that do not fail: a walk error, a metadata failure or a
\* read failure on one entry only leaves that entry out.
C12_FailingEntryOnlySkipped ==
    (spc = "returned" /\ PatternCompiles) =>
        /\ sresult.ok
        /\ sresult = ResultOn(WithoutFaulty)

-----------------------------------------------------------------------------
(* What the claims about malformed lines say.                              *)

\* C13 as stated: whatever the text, the extraction routine of each language
\* completes and returns a FileStructure; no line makes a run abort.
C13_ExtractionNeverAborts == ppc # "panicked"

\* a trimmed line that starts as a declaration of the language of ext and lacks
\* the delimiter that closes the name: "(" after fn or def, "{" after struct,
\* ";" after mod
LacksDelimiter(ext, l) ==
    \/ ext = "rs" /\ StartsWith(l, "mod ") /\ ~EndsWith(l, ";")
    \/ ext = "rs" /\ StartsWith(l, "struct ") /\ ~Contains(l, "{")
    \/ ext = "rs" /\ StartsWith(l, "fn ") /\ ~Contains(l, "(")
    \/ ext = "py" /\ StartsWith(l, "def ") /\ ~Contains(l, "(")

\* C14 as stated: in a returned run on a Rust or Python text, a line that starts
\* as a declaration and lacks its delimiter has no element.
C14_NoElementWithoutDelimiter ==
    (ppc = "returned" /\ pext \in {"rs", "py"}) =>
        \A i \in 1..Len(plines) :
            LacksDelimiter(pext, Trim(plines[i])) => ElementsAt(i) = {}

\* the call made was search_in_files with a pattern that does not compile
InvalidPatternCall ==
    /\ spc = "returned" /\ squery.op = "search_in_files"
    /\ ~RegexNew(squery.pattern).ok

\* C15: search_in_files with a pattern that is no regular expression returns Err,
\* with no SearchResult, and no file was read or matched before the failure.
C15_InvalidPatternFailsWhole ==
    InvalidPatternCall =>
        /\ ~sresult.ok
        /\ sresult.value = <<>>
        /\ sread = {} /\ sscored = {}

\* the failing call on a tree with a readable file that holds the text of the
\* pattern
C15_Witness ==
    /\ InvalidPatternCall
    /\ ~sresult.ok
    /\ \E f \in Searched :
          /\ f.fault = "none" /\ ~IsBinary(f) /\ ~IsLarge(f) /\ WalkYields(f)
          /\ Contains(f.text, squery.pattern)

-----------------------------------------------------------------------------
(* What the claims about the result of find_relevant_files say.            *)

\* the file of the searched tree at a path
FileAt(p) == CHOOSE f \in Searched : f.path = p

\* the score of a file for the keywords of the call
RelevanceOf(f) == calculate_relevance(f.text, squery.keywords)

\* a file the loop scores: the walk yields it, it is a file, neither binary nor
\* large, and its text can be read
Eligible(f) ==
    /\ WalkYields(f) /\ PathIsFile(f) /\ f.fault = "none"
    /\ ~IsBinary(f) /\ ~IsLarge(f)

\* the place of a path in the order of discovery
Discovery(p) == CHOOSE k \in 1..Len(sfiles) : SearchPool[sfiles[k]].path = p

\* a call of find_relevant_files with keywords returned Ok
FoundOk ==
    /\ spc = "returned" /\ squery.op = "find_relevant_files"
    /\ squery.keywords # <<>> /\ sresult.ok

\* C16: the list returned by find_relevant_files is in order of non-increasing
\* score, holds no file of score zero, holds every eligible file of positive
\* score once, and keeps files of equal score in discovery order.
C16_SortedPositiveOnceStable ==
    FoundOk =>
        LET r == sresult.value
        IN  /\ \A k \in 1..Len(r) : RelevanceOf(FileAt(r[k])) > 0
            /\ \A k, l \in 1..Len(r) :
                  k < l =>
                     /\ RelevanceOf(FileAt(r[k])) >= RelevanceOf(FileAt(r[l]))
                     /\ r[k] # r[l]
                     /\ RelevanceOf(FileAt(r[k])) = RelevanceOf(FileAt(r[l]))
                           => Discovery(r[k]) < Discovery(r[l])
            /\ Range(r) = {f.path : f \in {g \in Searched :
                                              Eligible(g) /\ RelevanceOf(g) > 0}}

\* a result in which the sort moved a file ahead of one found before it
C16_Witness ==
    /\ FoundOk
    /\ Len(sresult.value) = 2
    /\ Discovery(sresult.value[1]) > Discovery(sresult.value[2])

\* the call made was find_relevant_files with no keyword
EmptyKeywordCall ==
    /\ spc = "returned" /\ squery.op = "find_relevant_files"
    /\ squery.keywords = <<>>

\* C17: find_relevant_files with an empty keyword list returns Ok with an empty
\* list, and no file of the tree was read or scored.
C17_EmptyKeywordsEmptyResult ==
    EmptyKeywordCall =>
        /\ sresult = [ok |-> TRUE, value |-> <<>>]
        /\ sread = {} /\ sscored = {}

\* the call on a tree that holds a readable file and a file whose metadata would
\* fail
C17_Witness ==
    /\ EmptyKeywordCall
    /\ sresult.ok
    /\ \E f \in Searched : Eligible(f)
    /\ \E f \in Searched : f.fault = "stat"

\* C18 as stated: neither search returns a file beneath a directory of the
\* scanner's ignore set, nor a file whose extension is in the scanner's noise set.
C18_SearchAppliesScannerFilters ==
    spc = "returned" =>
        \A p \in ResultPaths :
            /\ ~BeneathIgnored(p)
            /\ Extension(p) \notin IgnoreExtensions

-----------------------------------------------------------------------------
(* What the claims about the PHP extraction say.                           *)

\* line j opens a documentation comment
DocOpensAt(j) == StartsWith(Trim(plines[j]), "/**")

\* line i is a declaration: its trimmed text starts with "class ", "interface "
\* or "function "
IsDeclaration(i) ==
    \/ StartsWith(Trim(plines[i]), "class ")
    \/ StartsWith(Trim(plines[i]), "interface ")
    \/ StartsWith(Trim(plines[i]), "function ")

\* the opening lines of the multi-line comment that closes on the line before
\* line i: a "/**" line, no "*/" and no new opening up to line i - 2, and a "*/"
\* on line i - 1
CommentsClosedBefore(i) ==
    {j \in 1..(i - 2) :
        /\ DocOpensAt(j)
        /\ \A m \in (j + 1)..(i - 2) : ~Contains(plines[m], "*/") /\ ~DocOpensAt(m)
        /\ Contains(plines[i - 1], "*/") /\ ~DocOpensAt(i - 1)}

\* the text of the comment lines j..i-1 before the first "@" annotation
CommentText(j, i) == Trim(DescriptionFrom(SubSeq(plines, j, i - 1), 1))

\* a PHP run returned
PhpReturned == ppc = "returned" /\ pext = "php"

\* C19 as stated: in a returned PHP run, a class, interface or function
\* declaration on the line after the close of a multi-line documentation comment
\* has an element whose description is the comment text before the first "@".
C19_DeclarationTakesDocComment ==
    PhpReturned =>
        \A i \in 1..Len(plines) :
            \A j \in CommentsClosedBefore(i) :
                IsDeclaration(i) =>
                    \E k \in ElementsAt(i) :
                        elements[k].description = SomeOf(CommentText(j, i))

\* the hooks the "@Implements hook_X" annotations of the comment lines j..i-1 name
CommentHooks(j, i) == AnnotationHooks(JoinLines(SubSeq(plines, j, i - 1)))

\* C20 as stated: in a returned PHP run, a function on the line after a
\* documentation comment with an "@Implements hook_X" annotation, whose name holds
\* no "_hook_", has an element of kind drupal_hook with is_hook true and hook_name
\* hook_X.
C20_AnnotatedFunctionIsHook ==
    PhpReturned =>
        \A i \in 1..Len(plines) :
            \A j \in CommentsClosedBefore(i) :
                (/\ StartsWith(Trim(plines[i]), "function ")
                 /\ ~Contains(FunctionName(Trim(plines[i])), "_hook_")
                 /\ CommentHooks(j, i) # <<>>) =>
                    \E k \in ElementsAt(i) :
                        /\ elements[k].kind = "drupal_hook"
                        /\ elements[k].metadata.is_hook
                        /\ elements[k].metadata.hook_name = SomeOf(CommentHooks(j, i)[1])

-----------------------------------------------------------------------------
(* C21: the look-ahead window of the plugin base class.                    *)

\* line i stands outside every documentation comment of the text: it opens
\* none, and each "/**" line before it is followed, from that line on and
\* before line i, by a line that holds "*/"
OutsideComment(i) ==
    /\ ~DocOpensAt(i)
    /\ \A j \in 1..(i - 1) :
           DocOpensAt(j) => \E m \in j..(i - 1) : Contains(plines[m], "*/")

\* the first line of the five lines that start at the class line i itself and
\* that extends a plugin base class, 0 for none
WindowBase(i) ==
    LET h == {m \in i..Min(i + 4, Len(plines)) : ExtendsPluginBase(Trim(plines[m]))}
    IN  IF h = {} THEN 0 ELSE MinOf(h)

\* C21 as stated: in a returned PHP run, a class line outside a comment with an
\* `extends` clause naming PluginBase, BlockBase, FieldItemBase or
\* ConfigEntityBase within the five lines that start at the class line itself
\* has an element of kind drupal_plugin with is_plugin true and the plugin_type
\* of that base class.
C21_ExtendsInWindowIsPlugin ==
    PhpReturned =>
        \A i \in 1..Len(plines) :
            (/\ StartsWith(Trim(plines[i]), "class ")
             /\ OutsideComment(i)
             /\ WindowBase(i) # 0) =>
                \E k \in ElementsAt(i) :
                    /\ elements[k].kind = "drupal_plugin"
                    /\ elements[k].metadata.is_plugin
                    /\ elements[k].metadata.plugin_type =
                           SomeOf(BasePluginType(Trim(plines[WindowBase(i)])))

-----------------------------------------------------------------------------
(* C22: the hooks list of a module holds no name twice.                    *)

\* the module info of a finished run that found one
HasModuleInfo ==
    /\ pc = "done"
    /\ specific_info.variant = "Drupal"
    /\ specific_info.info.some

\* C22 as stated: the hooks list of gather_drupal_module_info holds no hook
\* name at two positions.
C22_HooksWithoutDuplicates ==
    HasModuleInfo =>
        \A i, j \in 1..Len(specific_info.info.hooks) :
            specific_info.info.hooks[i] = specific_info.info.hooks[j] => i = j

-----------------------------------------------------------------------------
(* C23: the multiplier of a keyword.                                       *)

\* what keyword i of the list adds to the score of the content (search.rs
\* 137-142)
KeywordShare(i) ==
    KeywordScore(ToLower(content), keywords, Signatures(content), i)
    - KeywordScore(ToLower(content), keywords, Signatures(content), i - 1)

\* the case-insensitive occurrence count of keyword i in the content
Occurrences(i) == CountMatches(ToLower(content), ToLower(keywords[i]))

\* the words by which get_language_boost ties a keyword to a language
CorrelatedWords ==
    {"rust", "fn ", "struct", "impl", "python", "def ", "import ", "class ", "php",
     "drupal", "module", "info", "configuration", "service", "dependency",
     "template", "twig", "js", "javascript", "angular", "component", "react", "jsx",
     "go", "golang", "func "}

\* keyword i speaks of no language
Uncorrelated(i) == ~ContainsAny(ToLower(keywords[i]), CorrelatedWords)

\* C23 as stated: on a content with the Rust signature the keyword struct or
\* impl adds 3 times its case-insensitive occurrence count to the score, and a
\* keyword that speaks of no language adds exactly its occurrence count.
C23_RustKeywordTriples ==
    prev.op # "input" =>
        \A i \in 1..Len(keywords) :
            /\ (Signatures(content).is_rust /\ ToLower(keywords[i]) \in {"struct", "impl"})
                   => KeywordShare(i) = 3 * Occurrences(i)
            /\ Uncorrelated(i) => KeywordShare(i) = Occurrences(i)

-----------------------------------------------------------------------------
(* C24: the bonus of the search language.                                  *)

\* the content of the state as the score sees it: lower-cased, with its
\* signatures and the language of the keywords
Scored ==
    {[cl |-> ToLower(content), sg |-> Signatures(content),
      lang |-> detect_search_language(keywords), cs |-> component_search(keywords)]}

\* search.rs 221-225 applies: the score is halved after the bonus
Penalized(x) ==
    x.lang = "Drupal" /\ x.sg.is_javascript /\ ~Contains(x.cl, "drupal")

\* what the score holds beyond the shares of the keywords
BonusAdded(x) == score - KeywordScore(x.cl, keywords, x.sg, Len(keywords))

\* the tests of the search language on the content, each with its amount
BonusTests(x) ==
    CASE x.lang = "Rust" -> <<[on |-> x.sg.is_rust, amount |-> 25]>>
      [] x.lang = "Python" -> <<[on |-> x.sg.is_python, amount |-> 25]>>
      [] x.lang = "JavaScript" ->
            <<[on |-> x.sg.is_javascript, amount |-> 20],
              [on |-> x.sg.is_angular, amount |-> 25],
              [on |-> x.sg.is_react, amount |-> 25]>>
      [] x.lang = "PHP" -> <<[on |-> x.sg.is_php, amount |-> 25]>>
      [] x.lang = "Drupal" ->
            <<[on |-> x.sg.is_drupal, amount |-> 30],
              [on |-> x.sg.is_drupal_info, amount |-> 35],
              [on |-> x.sg.is_drupal_services, amount |-> 35],
              [on |-> x.sg.is_drupal_template, amount |-> 25],
              [on |-> x.cs /\ Contains(x.cl, "\\plugin\\"), amount |-> 40],
              [on |-> x.cs /\ Contains(x.cl, "\\form\\"), amount |-> 40],
              [on |-> x.cs /\ Contains(x.cl, "\\entity\\"), amount |-> 40]>>
      [] x.lang = "Go" -> <<[on |-> x.sg.is_go, amount |-> 25]>>
      [] OTHER -> <<>>

\* the tests that the content passes
Matched(x) == SelectSeq(BonusTests(x), LAMBDA b : b.on)

RECURSIVE SumAmounts(_)
SumAmounts(q) == IF q = <<>> THEN 0 ELSE Head(q).amount + SumAmounts(Tail(q))

\* C24 as stated: when the content matches the search language the bonus is
\* one amount between 20 and 40, and when it does not, no bonus is added.
C24_OneFlatBonus ==
    prev.op # "input" =>
        \A x \in Scored :
            ~Penalized(x) =>
                \A m \in {Matched(x)} :
                    IF m = <<>> THEN BonusAdded(x) = 0 ELSE BonusAdded(x) \in 20..40

\* C24, amended: the bonus is the sum of one flat amount, each between 20 and
\* 40, for every test of the search language that the content passes; no bonus
\* is added when it passes none.
C24_SumOfFlatBonuses ==
    prev.op # "input" =>
        \A x \in Scored :
            ~Penalized(x) =>
                \A m \in {Matched(x)} :
                    /\ BonusAdded(x) = SumAmounts(m)
                    /\ \A i \in 1..Len(m) : m[i].amount \in 20..40
                    /\ m = <<>> => BonusAdded(x) = 0

\* a Drupal search on a content that is both Drupal code and an info file: two
\* amounts, 30 and 35
C24_Witness ==
    /\ prev.op # "input"
    /\ \E x \in Scored :
          /\ ~Penalized(x)
          /\ x.lang = "Drupal"
          /\ Len(Matched(x)) = 2
          /\ BonusAdded(x) = 65

-----------------------------------------------------------------------------
(* C25: the hook functions of a React text.                                *)

\* parser.rs 131-135 holds of the text of the run
ReactSignatured ==
    ContainsAny(JoinLines(plines), {"import React", "from 'react'",
                                    "extends React.Component", "<React.", "<>"})

\* line i reads "function useName(...)" and no Angular decorator
DeclaresHook(i) ==
    /\ StartsWith(Trim(plines[i]), "function use")
    /\ Contains(plines[i], "(")
    /\ ~Contains(plines[i], "@Component") /\ ~Contains(plines[i], "@Injectable")

\* C25 as stated: in a returned run on a React-signatured text, a line
\* "function useName(...)" with no JSX return within twenty lines has exactly one
\* element, of kind react_hook, whatever else the text holds.
C25_HookEmittedOnce ==
    (ppc = "returned" /\ pext = "js" /\ ReactSignatured) =>
        \A i \in 1..Len(plines) :
            (DeclaresHook(i) /\ ~HasJsx(plines, i)) =>
                /\ Cardinality(ElementsAt(i)) = 1
                /\ \A k \in ElementsAt(i) : elements[k].kind = "react_hook"

-----------------------------------------------------------------------------
(* C26: every PHP declaration outside a comment has its element.           *)

\* C26 as stated: in a returned PHP run, every line outside a documentation
\* comment whose trimmed text starts with "class ", "interface " or "function "
\* has exactly one element, with the 1-based number of the line; so has a
\* declaration on the line after a one-line comment "/** ... */".
C26_DeclarationOutsideCommentEmitted ==
    PhpReturned =>
        \A i \in 1..Len(plines) :
            (IsDeclaration(i) /\ OutsideComment(i)) => Cardinality(ElementsAt(i)) = 1

-----------------------------------------------------------------------------
(* C27: the Drupal types and the modules list.                             *)

\* C27: the result is Drupal or DrupalModule exactly when the modules list is
\* not empty; when the Drupal rule is tried and finds no module, the type is
\* the one of the first matching rule after it, and the list is empty.
C27_DrupalIffModules ==
    pc \in {"typed", "done"} =>
        /\ IsDrupalType(project_type) <=> modules # <<>>
        /\ (DrupalTrigger(features) /\ find_all_drupal_modules(root, tree) = <<>>) =>
              /\ modules = <<>>
              /\ \E k \in 1..Len(RuleOrder) :
                    /\ RuleOrder[k].type = project_type
                    /\ RuleOrder[k].fires
                    /\ \A j \in 1..(k - 1) : ~RuleOrder[j].fires

\* the Drupal rule tried on a tree with Drupal core and no module: the result is
\* PHP with no module
C27_Witness ==
    /\ pc = "done"
    /\ DrupalTrigger(features) /\ features.has_drupal_core
    /\ find_all_drupal_modules(root, tree) = <<>>
    /\ project_type = "PHP" /\ modules = <<>>

-----------------------------------------------------------------------------
(* C28: a file without any keyword can be returned.                        *)

\* the signatures of the text match the language the keywords speak of
MatchesSearchLanguage(text, ks) ==
    LET sg == Signatures(text)
        lang == detect_search_language(ks)
    IN  CASE lang = "Rust" -> sg.is_rust
          [] lang = "Python" -> sg.is_python
          [] lang = "JavaScript" -> sg.is_javascript \/ sg.is_angular \/ sg.is_react
          [] lang = "PHP" -> sg.is_php
          [] lang = "Drupal" -> \/ sg.is_drupal \/ sg.is_drupal_info
                                \/ sg.is_drupal_services \/ sg.is_drupal_template
          [] lang = "Go" -> sg.is_go
          [] OTHER -> FALSE

\* the eligible files of the call that hold no keyword and match its language
KeywordFreeMatches ==
    {f \in Searched : /\ Eligible(f)
                      /\ KeywordFree(f.text, squery.keywords)
                      /\ MatchesSearchLanguage(f.text, squery.keywords)}

-----------------------------------------------------------------------------
(* C29: the type TypeScript and the variants of the specific info.         *)

\* the types for which analyze_project_structure gathers specific info
InfoTypes == {"DrupalModule", "Rust", "Angular", "React", "Python"}

\* C29: no run returns the type TypeScript; a tree in which a .ts file is
\* reached, no earlier rule matches and no Drupal type is found is JavaScript;
\* and the specific info is None for every type but DrupalModule, Rust,
\* Angular, React and Python.
C29_NeverTypeScript ==
    /\ pc \in {"typed", "done"} =>
          /\ project_type # "TypeScript"
          /\ (/\ ReachedExt("ts") /\ ~IsDrupalType(project_type)
              /\ ~RuleRust /\ ~RuleAngular /\ ~RuleReact /\ ~RulePython /\ ~RuleGo)
                 => project_type = "JavaScript"
    /\ pc = "done" =>
          (project_type \notin InfoTypes => specific_info.variant = "None")

\* a tree whose only source is a .ts file: JavaScript, with no specific info
C29_Witness ==
    /\ pc = "done"
    /\ ReachedExt("ts") /\ ~ReachedExt("js")
    /\ project_type = "JavaScript"
    /\ specific_info.variant = "None"

-----------------------------------------------------------------------------
(* C30: the func lines of a Go text.                                       *)

\* a Go run returned
GoReturned == ppc = "returned" /\ pext = "go"

\* line i, trimmed, starts with "func "
IsFuncLine(i) == StartsWith(Trim(plines[i]), "func ")

\* the text of the func line i between "func " and its first "("
FuncHead(i) == FirstOf(StripPrefix(Trim(plines[i]), "func "), "(")

\* the func line i has a receiver: "(" follows "func " at once
HasReceiver(i) == StartsWith(Trim(plines[i]), "func (")

=============================================================================
